---- MODULE Spec2Model ----
(***************************************************************************)
(* A model of profundo's chunk store (src/src/db.rs) and of its recall     *)
(* search (src/src/recall.rs).                                             *)
(*                                                                         *)
(* Strings are sequences of one-character strings.  An f32 is modelled by  *)
(* an integer: similarities are fixed-point hundredths (SimScale), fused   *)
(* scores are fixed-point with ScoreScale units, BM25 ranks are integers.  *)
(* The columns id (a fresh UUID), timestamp and created_at of the chunks   *)
(* table are not read by any modelled operation and are left out.          *)
(*                                                                         *)
(* The fields of every record constructor are written in the order in      *)
(* which their names first occur in this module, the order TLC keeps       *)
(* records in, so that records are built already normalised.               *)
(***************************************************************************)
EXTENDS Integers, Sequences, FiniteSets, TLC

VARIABLES
    chunks,              \* table chunks: a set of rows
    chunks_fts,          \* table chunks_fts: the index entries [rowid, text]
    sessions_processed,  \* table sessions_processed: session_id -> marker
    op,                  \* the last operation that ran: its arguments and its result
    committed,           \* history: session_id -> the fingerprint of its last
                         \* store_chunks call that returned Ok
    nops,                \* the number of operations run so far
    state,               \* table state: the set of its keys
    handle,              \* whether the process holds a Database
    tx                   \* the transaction of a store_chunks call in progress

vars == <<chunks, chunks_fts, sessions_processed, op, committed, nops, state, handle, tx>>

(***************************************************************************)
(* Bounds of the model.                                                    *)
(***************************************************************************)
MaxChunks == 2        \* chunks passed to one store_chunks call
MaxOps == 3           \* operations on the store in one behaviour
MaxQueryLen == 5      \* length of the strings given to sanitize_fts_query
MaxTopK == 2          \* largest top_k of a search
SizeBits == 2         \* width of file_size in the model (u64 in the code)
MaxMtime == 2         \* file_mtime ranges over 1..MaxMtime
UsizeBits == 9        \* width of usize in the model
I32Bits == 4          \* width of i32 in the model
MaxTurns == 10        \* turns of a session

Sessions == {"s1", "s2"}
NoMarker == [present |-> FALSE]
NoOp == [name |-> "none"]
NoTx == [active |-> FALSE]

(***************************************************************************)
(* Generic helpers.                                                        *)
(***************************************************************************)
Range(s) == {s[i] : i \in 1..Len(s)}

SeqsUpTo(S, n) == UNION {[1..k -> S] : k \in 0..n}

MaxOf(S) == CHOOSE x \in S : \A y \in S : y <= x

Min(a, b) == IF a < b THEN a ELSE b

RECURSIVE Pow2(_)
Pow2(n) == IF n = 0 THEN 1 ELSE 2 * Pow2(n - 1)

RECURSIVE SumSeq(_)
SumSeq(s) == IF s = <<>> THEN 0 ELSE Head(s) + SumSeq(Tail(s))

RECURSIVE Concat(_)
Concat(ss) == IF ss = <<>> THEN <<>> ELSE Head(ss) \o Concat(Tail(ss))

\* The permutations of a finite set, as sequences.
RECURSIVE Perms(_)
Perms(S) ==
    IF S = {} THEN {<<>>}
    ELSE UNION {{<<x>> \o p : p \in Perms(S \ {x})} : x \in S}

(***************************************************************************)
(* Text.  unicode61, the default tokenizer of FTS5, folds case and splits  *)
(* on every character that is not a letter or a digit.                     *)
(***************************************************************************)
Letters == {"a", "b", "O", "R"}
WhiteSpace == {" ", "\t"}
Quote == "\""

Fold(c) == IF c = "O" THEN "o" ELSE IF c = "R" THEN "r" ELSE c

\* The tokens of a text, in order: maximal runs of letters, case-folded.
RECURSIVE TokensFrom(_, _)
TokensFrom(s, cur) ==
    IF s = <<>> THEN (IF cur = <<>> THEN <<>> ELSE <<cur>>)
    ELSE IF Head(s) \in Letters THEN TokensFrom(Tail(s), Append(cur, Fold(Head(s))))
    ELSE (IF cur = <<>> THEN <<>> ELSE <<cur>>) \o TokensFrom(Tail(s), <<>>)

Tokenize(s) == TokensFrom(s, <<>>)

\* The texts a chunk may carry.
Texts == {<<"a">>, <<"b">>, <<"a", " ", "b">>}

(***************************************************************************)
(* Embeddings.  The embedding service is a function of the text; the model *)
(* fixes one such function, with vectors of norm 5.                        *)
(***************************************************************************)
EmbedText(t) ==
    LET ts == Range(Tokenize(t))
    IN  IF ts = {<<"a">>} THEN <<5, 0>>
        ELSE IF ts = {<<"b">>} THEN <<0, 5>>
        ELSE IF ts = {<<"a">>, <<"b">>} THEN <<3, 4>>
        ELSE <<4, 3>>

\* f32::to_le_bytes of a vector component: four bytes, least significant first.
F32ToLeBytes(x) ==
    <<x % 256, (x \div 256) % 256, (x \div 65536) % 256, (x \div 16777216) % 256>>

\* f32::from_le_bytes.
F32FromLeBytes(b) ==
    b[1] + 256 * b[2] + 65536 * b[3]
        + 16777216 * (IF b[4] >= 128 THEN b[4] - 256 ELSE b[4])

embedding_to_bytes(embedding) ==
    Concat([i \in 1..Len(embedding) |-> F32ToLeBytes(embedding[i])])

\* Mutant of bytes_to_embedding: a trailing rest is filled up with zero
\* bytes and decoded too.
bytes_to_embedding_padded(bytes) ==
    LET padded == bytes \o [k \in 1..((4 - (Len(bytes) % 4)) % 4) |-> 0]
    IN  [i \in 1..(Len(padded) \div 4) |-> F32FromLeBytes(SubSeq(padded, 4 * i - 3, 4 * i))]

\* chunks_exact(4): the complete groups of four bytes; a trailing rest is dropped.
bytes_to_embedding(bytes) ==
    [i \in 1..(Len(bytes) \div 4) |-> F32FromLeBytes(SubSeq(bytes, 4 * i - 3, 4 * i))]

(***************************************************************************)
(* The store.  A database value d is a record of its three tables.         *)
(***************************************************************************)
Db == [chunks |-> chunks, fts |-> chunks_fts, processed |-> sessions_processed]

\* chunks has no INTEGER PRIMARY KEY: SQLite gives a new row the rowid
\* max(rowid) + 1, or 1 in an empty table.
NextRowid(rows) == IF rows = {} THEN 1 ELSE MaxOf({r.rowid : r \in rows}) + 1

UsizeMax == Pow2(UsizeBits) - 1
I32Max == Pow2(I32Bits - 1) - 1

\* turn_start as i32, turn_end as i32: the low I32Bits bits, read as signed.
UsizeAsI32(x) ==
    LET low == x % Pow2(I32Bits)
    IN  IF low >= Pow2(I32Bits - 1) THEN low - Pow2(I32Bits) ELSE low

\* file_size as i64, on SizeBits bits.
U64AsI64(x) == IF x >= Pow2(SizeBits - 1) THEN x - Pow2(SizeBits) ELSE x

\* Mutant of TxDelete: the DELETE is left out.
TxDeleteNothing(d, session_id) == d

\* DELETE FROM chunks WHERE session_id = ?, with trigger chunks_ad.
TxDelete(d, session_id) ==
    LET gone == {r \in d.chunks : r.session_id = session_id}
    IN  [d EXCEPT !.chunks = @ \ gone,
                  !.fts = @ \ {[rowid |-> r.rowid, text |-> r.text] : r \in gone}]

\* INSERT INTO chunks (...) VALUES (...), with trigger chunks_ai.
TxInsert(d, chunk, embedding) ==
    LET row == [embedding |-> embedding_to_bytes(embedding),
                rowid |-> NextRowid(d.chunks),
                session_id |-> chunk.session_id,
                text |-> chunk.text,
                turn_start |-> UsizeAsI32(chunk.turn_start),
                turn_end |-> UsizeAsI32(chunk.turn_end)]
    IN  [d EXCEPT !.chunks = @ \cup {row},
                  !.fts = @ \cup {[rowid |-> row.rowid, text |-> row.text]}]

RECURSIVE TxInsertAll(_, _)
TxInsertAll(d, pairs) ==
    IF pairs = <<>> THEN d
    ELSE TxInsertAll(TxInsert(d, Head(pairs).chunk, Head(pairs).embedding), Tail(pairs))

\* INSERT OR REPLACE INTO sessions_processed.
TxMark(d, session_id, file_size, file_mtime, n) ==
    [d EXCEPT !.processed[session_id] =
        [present |-> TRUE, file_size |-> U64AsI64(file_size),
         file_mtime |-> file_mtime, chunks_count |-> n]]

(* The statements of store_chunks, numbered: 0 is conn.transaction(), 1    *)
(* the DELETE, 2..n+1 the INSERTs, n+2 the marker, n+3 the COMMIT.         *)
(* TxAfter(d, .., k) is what the transaction sees once statements 1..k     *)
(* have run.                                                               *)
TxAfter(d, session_id, file_size, file_mtime, pairs, k) ==
    LET n == Len(pairs)
        d1 == IF k >= 1 THEN TxDelete(d, session_id) ELSE d
        ni == IF k - 1 > n THEN n ELSE IF k - 1 < 0 THEN 0 ELSE k - 1
        d2 == TxInsertAll(d1, SubSeq(pairs, 1, ni))
    IN  IF k >= n + 2 THEN TxMark(d2, session_id, file_size, file_mtime, n) ELSE d2

\* The statement a call with n chunks fails at; n + 4 stands for none.
FailPoints(n) == 0..(n + 4)

Succeeds(n, failAt) == failAt = n + 4

\* Mutant of TxEnd: the statements run outside a transaction.
TxEndNoRollback(before, work, commit) == work

\* What the database holds when a transaction ends: its own writes if it
\* committed; if a statement failed, `?` returns, tx is dropped and rusqlite
\* rolls back to the state before the transaction.
TxEnd(before, work, commit) == IF commit THEN work ELSE before

\* store_chunks: the database after the call whose statement failAt fails.
store_chunks(d, session_id, file_size, file_mtime, pairs, failAt) ==
    LET n == Len(pairs)
        done == IF failAt - 1 > n + 2 THEN n + 2 ELSE failAt - 1
        work == TxAfter(d, session_id, file_size, file_mtime, pairs, done)
    IN  TxEnd(d, work, Succeeds(n, failAt))

\* Mutant of is_session_processed: file_mtime is not compared.
IsProcessedSizeOnly(d, session_id, file_size, file_mtime) ==
    LET m == d.processed[session_id]
    IN  IF m.present THEN m.file_size = U64AsI64(file_size) ELSE FALSE

\* is_session_processed.
is_session_processed(d, session_id, file_size, file_mtime) ==
    LET m == d.processed[session_id]
    IN  IF m.present
        THEN m.file_size = U64AsI64(file_size) /\ m.file_mtime = file_mtime
        ELSE FALSE

(***************************************************************************)
(* Reads of the store.                                                     *)
(***************************************************************************)
\* A row as load_all_chunks and load_chunks_by_rowids return it.
StoredChunk(r) ==
    [embedding |-> bytes_to_embedding(r.embedding), rowid |-> r.rowid, session_id |-> r.session_id,
     text |-> r.text, turn_start |-> r.turn_start,
     turn_end |-> r.turn_end]

\* The rows of a set as a sequence in ascending rowid order (a table scan).
RECURSIVE ScanByRowid(_)
ScanByRowid(rows) ==
    IF rows = {} THEN <<>>
    ELSE LET first == CHOOSE r \in rows : \A q \in rows : r.rowid <= q.rowid
         IN  <<StoredChunk(first)>> \o ScanByRowid(rows \ {first})

\* load_all_chunks: [chunks, queried].
load_all_chunks(d) == [chunks |-> ScanByRowid(d.chunks), queried |-> TRUE]

\* load_chunks_by_rowids: [chunks, queried]; an empty list returns before
\* any statement is prepared.
load_chunks_by_rowids(d, rowids) ==
    IF rowids = <<>> THEN [chunks |-> <<>>, queried |-> FALSE]
    ELSE [chunks |-> ScanByRowid({r \in d.chunks : r.rowid \in Range(rowids)}),
          queried |-> TRUE]

(***************************************************************************)
(* sanitize_fts_query.                                                     *)
(***************************************************************************)
\* str::split_whitespace: the maximal runs of characters that are not
\* white space, in order.
RECURSIVE SplitFrom(_, _)
SplitFrom(s, cur) ==
    IF s = <<>> THEN (IF cur = <<>> THEN <<>> ELSE <<cur>>)
    ELSE IF Head(s) \in WhiteSpace
         THEN (IF cur = <<>> THEN <<>> ELSE <<cur>>) \o SplitFrom(Tail(s), <<>>)
         ELSE SplitFrom(Tail(s), Append(cur, Head(s)))

split_whitespace(s) == SplitFrom(s, <<>>)

IsQuote(c) == c = Quote
NotQuote(c) == c # Quote

\* Mutant of StripQuotes: the token is kept as it is.
KeepQuotes(token) == token

\* token.replace('"', "").
StripQuotes(token) == SelectSeq(token, NotQuote)

\* Vec<String>::join(" ").
RECURSIVE JoinSpace(_)
JoinSpace(ts) ==
    IF ts = <<>> THEN <<>>
    ELSE IF Len(ts) = 1 THEN ts[1]
    ELSE ts[1] \o <<" ">> \o JoinSpace(Tail(ts))

NonEmpty(t) == t # <<>>

\* The closure of sanitize_fts_query's map.
QuoteToken(token) ==
    LET clean == StripQuotes(token)
    IN  IF clean = <<>> THEN <<>> ELSE <<Quote>> \o clean \o <<Quote>>

sanitize_fts_query(query) ==
    LET tokens == split_whitespace(query)
        mapped == [i \in 1..Len(tokens) |-> QuoteToken(tokens[i])]
    IN  JoinSpace(SelectSeq(mapped, NonEmpty))

(***************************************************************************)
(* The FTS5 engine behind bm25_search, as far as the store uses it: the    *)
(* lexer of a MATCH expression, the implicit AND of its phrases, and an    *)
(* integer rank that is lower for a better match.                          *)
(***************************************************************************)
\* The keywords of the query language among the strings of the model (OR
\* stands for AND, OR, NOT and NEAR).
Keywords == {<<"O", "R">>}

\* The lexemes of a MATCH expression.  A string runs from a quote to the
\* next quote that is not doubled; a bareword is a run of letters; white
\* space separates; any other character is a lexeme of its own.
RECURSIVE Fts5Lex(_, _, _)
Fts5Lex(s, mode, cur) ==
    IF s = <<>>
    THEN IF mode = "string" THEN <<[text |-> cur, kind |-> "unterminated"]>>
         ELSE IF mode = "word" THEN <<[text |-> cur, kind |-> "bareword"]>>
         ELSE <<>>
    ELSE LET c == Head(s)
             rest == Tail(s)
         IN  IF mode = "string"
             THEN IF c = Quote
                  THEN IF rest # <<>> /\ Head(rest) = Quote
                       THEN Fts5Lex(Tail(rest), "string", Append(cur, Quote))
                       ELSE <<[text |-> cur, kind |-> "string"]>> \o Fts5Lex(rest, "out", <<>>)
                  ELSE Fts5Lex(rest, "string", Append(cur, c))
             ELSE IF mode = "word"
             THEN IF c \in Letters
                  THEN Fts5Lex(rest, "word", Append(cur, c))
                  ELSE <<[text |-> cur, kind |-> "bareword"]>> \o Fts5Lex(s, "out", <<>>)
             ELSE IF c = Quote THEN Fts5Lex(rest, "string", <<>>)
             ELSE IF c \in Letters THEN Fts5Lex(rest, "word", <<c>>)
             ELSE IF c \in WhiteSpace THEN Fts5Lex(rest, "out", <<>>)
             ELSE <<[text |-> <<c>>, kind |-> "special"]>> \o Fts5Lex(rest, "out", <<>>)

\* A MATCH expression the engine takes without a syntax error, among those
\* the model decides: a non-empty sequence of strings and of barewords that
\* are no keywords.
Fts5Accepts(q) ==
    LET lx == Fts5Lex(q, "out", <<>>)
    IN  /\ lx # <<>>
        /\ \A i \in 1..Len(lx) :
              \/ lx[i].kind = "string"
              \/ lx[i].kind = "bareword" /\ lx[i].text \notin Keywords

\* The phrases of an accepted expression: the tokens of each lexeme.
Fts5Phrases(q) ==
    LET lx == Fts5Lex(q, "out", <<>>)
    IN  [i \in 1..Len(lx) |-> Tokenize(lx[i].text)]

\* The number of places where phrase ph occurs in the token sequence doc.
Occurrences(ph, doc) ==
    IF ph = <<>> THEN 0
    ELSE Cardinality({i \in 1..(Len(doc) - Len(ph) + 1) :
                         SubSeq(doc, i, i + Len(ph) - 1) = ph})

\* A row matches when every phrase occurs in it.
Fts5Matches(phrases, text) ==
    \A i \in 1..Len(phrases) : Occurrences(phrases[i], Tokenize(text)) > 0

\* bm25(chunks_fts): negative, lower for more occurrences in a shorter text.
Bm25(phrases, text) ==
    LET doc == Tokenize(text)
    IN  0 - SumSeq([i \in 1..Len(phrases) |->
                     (100 * Occurrences(phrases[i], doc))
                        \div (Occurrences(phrases[i], doc) + Len(doc))])

\* The sequences that list the records of S in non-decreasing rank.
OrdersByRank(S) ==
    {p \in Perms(S) : \A i \in 1..Len(p), j \in 1..Len(p) : i < j => p[i].rank <= p[j].rank}

\* The first n elements of a sequence.
Take(s, n) == SubSeq(s, 1, IF n < Len(s) THEN n ELSE Len(s))

\* Mutant of SqlOrderLimit: ORDER BY rank and LIMIT are left out.
SqlNoOrderNoLimit(hits, limit) == Perms(hits)

\* ORDER BY rank LIMIT ?: the results the statement may return for the
\* matching rows; rows of equal rank come in any order.
SqlOrderLimit(hits, limit) == {Take(p, limit) : p \in OrdersByRank(hits)}

\* bm25_search: the results the call may return, each [ok, rows, queried].
bm25_search(d, query, limit) ==
    LET safe_query == sanitize_fts_query(query)
    IN  IF safe_query = <<>> THEN {[rows |-> <<>>, queried |-> FALSE, ok |-> TRUE]}
        ELSE IF ~Fts5Accepts(safe_query)
        THEN {[rows |-> <<>>, queried |-> TRUE, ok |-> FALSE]}
        ELSE LET phrases == Fts5Phrases(safe_query)
                 hits == {[rowid |-> e.rowid, rank |-> Bm25(phrases, e.text)] :
                            e \in {x \in d.fts : Fts5Matches(phrases, x.text)}}
             IN  {[rows |-> rows, queried |-> TRUE, ok |-> TRUE] :
                    rows \in SqlOrderLimit(hits, limit)}

(***************************************************************************)
(* recall.rs: similarity, the two search paths.                            *)
(***************************************************************************)
SimScale == 100          \* a similarity s is the integer 100 * s
ScoreScale == 1000000000 \* a fused score x is the integer 10^9 * x
RRF_K == 60
FALLBACK_RANK == 10000
PoolFactor == 40
PoolFloor == 200

ISqrt(n) == CHOOSE r \in 0..n : r * r <= n /\ n < (r + 1) * (r + 1)

Dot(a, b) == SumSeq([i \in 1..Len(a) |-> a[i] * b[i]])

\* cosine_similarity, in hundredths.
cosine_similarity(a, b) ==
    IF Len(a) # Len(b) \/ a = <<>> THEN 0
    ELSE LET norm_a == ISqrt(Dot(a, a))
             norm_b == ISqrt(Dot(b, b))
         IN  IF norm_a = 0 \/ norm_b = 0 THEN 0
             ELSE (Dot(a, b) * SimScale) \div (norm_a * norm_b)

\* Mutant of StableSortByKey: the list is left in the order it came in.
NoSort(s, keys) == s

\* slice::sort_by is stable: the element at i goes behind every element
\* with a smaller key and every earlier element with the same key.
StableSortByKey(s, keys) ==
    LET n == Len(s)
        pos(i) == 1 + Cardinality({j \in 1..n :
                         keys[j] < keys[i] \/ (keys[j] = keys[i] /\ j < i)})
    IN  [k \in 1..n |-> s[CHOOSE i \in 1..n : pos(i) = k]]

\* Mutant of Truncate: the list is returned whole.
NoTruncate(s, top_k) == s

\* Vec::truncate(top_k) and Iterator::take(top_k).
Truncate(s, top_k) == Take(s, top_k)

\* Mutant of PassesThreshold: every candidate passes.
PassesAlways(sim, threshold) == TRUE

\* The filter of both paths: similarity >= config.threshold.
PassesThreshold(sim, threshold) == sim >= threshold

\* semantic_only_search.
semantic_only_search(cands, query_embedding, config) ==
    LET scored == [i \in 1..Len(cands) |->
                     [chunk |-> cands[i],
                      similarity |-> cosine_similarity(query_embedding, cands[i].embedding)]]
        Kept(r) == PassesThreshold(r.similarity, config.threshold)
        results == SelectSeq(scored, Kept)
        sorted == StableSortByKey(results, [i \in 1..Len(results) |-> 0 - results[i].similarity])
    IN  Truncate(sorted, config.top_k)

\* a * b on usize: an overflow panics in a build with overflow checks and
\* wraps around in a build without.
MulUsize(a, b) ==
    IF a * b <= UsizeMax THEN {[ok |-> TRUE, value |-> a * b]}
    ELSE {[ok |-> FALSE, value |-> 0], [ok |-> TRUE, value |-> (a * b) % Pow2(UsizeBits)]}

\* .max(200)
PoolMax(x) == IF x > PoolFloor THEN x ELSE PoolFloor

\* (config.top_k * 40).max(200): the outcomes over the builds.
candidate_pool_size_per_query(top_k) ==
    {[ok |-> m.ok, value |-> IF m.ok THEN PoolMax(m.value) ELSE 0] :
        m \in MulUsize(top_k, PoolFactor)}

\* The entry-API update of all_bm25 for one (rowid, rank): the lower rank stays.
MergeOne(all_bm25, rowid, rank) ==
    IF \E e \in all_bm25 : e.rowid = rowid
    THEN {IF e.rowid = rowid /\ rank < e.rank THEN [rowid |-> rowid, rank |-> rank] ELSE e :
             e \in all_bm25}
    ELSE all_bm25 \cup {[rowid |-> rowid, rank |-> rank]}

RECURSIVE MergeRows(_, _)
MergeRows(all_bm25, rows) ==
    IF rows = <<>> THEN all_bm25
    ELSE MergeRows(MergeOne(all_bm25, Head(rows).rowid, Head(rows).rank), Tail(rows))

\* Mutant of Bm25OrDefault: a failed call ends the merge with nothing.
Bm25OrNothing(res, all_bm25) == IF res.ok THEN MergeRows(all_bm25, res.rows) ELSE {}

\* db.bm25_search(..).unwrap_or_default(), merged into all_bm25: a failed
\* call is an empty list.
Bm25OrDefault(res, all_bm25) == MergeRows(all_bm25, IF res.ok THEN res.rows ELSE <<>>)

\* The outcomes of the bm25_search call at position k of the loop; the calls
\* at the positions in failing return Err from the database.
Bm25Call(d, query, limit, k, failing) ==
    IF k \in failing /\ sanitize_fts_query(query) # <<>>
    THEN {[rows |-> <<>>, queried |-> TRUE, ok |-> FALSE]}
    ELSE bm25_search(d, query, limit)

\* The loop over the query variants: the merged maps it may end with, each
\* with the log of its bm25_search calls and the rows each call returned.
RECURSIVE MergeQueries(_, _, _, _, _)
MergeQueries(d, queries, limit, failing, accs) ==
    IF queries = <<>> THEN accs
    ELSE MergeQueries(d, Tail(queries), limit, failing,
            {[all_bm25 |-> Bm25OrDefault(res, acc.all_bm25),
              calls |-> Append(acc.calls,
                               [queried |-> res.queried, query |-> Head(queries),
                                limit |-> limit, ok |-> res.ok, returned |-> Range(res.rows),
                                fn |-> "bm25_search"])] :
                acc \in accs,
                res \in Bm25Call(d, Head(queries), limit,
                                 Len((CHOOSE a \in accs : TRUE).calls) + 1, failing)})

\* Mutant of RrfScore: the term of the semantic rank is left out.
RrfScoreLexicalOnly(sr, br) == ScoreScale \div (RRF_K + br)

\* Mutant of RrfScore: a key absent from a ranking gets no term for it.
RrfScoreNoFallback(sr, br) ==
    (IF sr = FALLBACK_RANK THEN 0 ELSE ScoreScale \div (RRF_K + sr))
        + (IF br = FALLBACK_RANK THEN 0 ELSE ScoreScale \div (RRF_K + br))

\* 1.0 / (RRF_K + sr) + 1.0 / (RRF_K + br)
RrfScore(sr, br) == (ScoreScale \div (RRF_K + sr)) + (ScoreScale \div (RRF_K + br))

\* The 1-based position of rowid in a ranking, or the fallback rank.
RankIn(ranking, rowid) ==
    IF \E i \in 1..Len(ranking) : ranking[i].rowid = rowid
    THEN CHOOSE i \in 1..Len(ranking) : ranking[i].rowid = rowid
    ELSE FALLBACK_RANK

\* A set of integers as an ascending sequence (the BTreeSet's iteration).
RECURSIVE Ascending(_)
Ascending(S) ==
    IF S = {} THEN <<>>
    ELSE LET m == CHOOSE x \in S : \A y \in S : x <= y
         IN  <<m>> \o Ascending(S \ {m})

\* Mutant of ChooseCandidates: an empty pool loads nothing.
ChooseNoFallback(d, bm25_rowids) ==
    load_chunks_by_rowids(d, bm25_rowids)
        @@ [rowids |-> bm25_rowids, fn |-> "load_chunks_by_rowids"]

\* Mutant of ChooseCandidates: the whole corpus is always loaded.
AlwaysLoadAll(d, bm25_rowids) == load_all_chunks(d) @@ [fn |-> "load_all_chunks"]

\* The candidates of a hybrid search: the rows of the pool, or every row
\* when the pool is empty.
ChooseCandidates(d, bm25_rowids) ==
    IF bm25_rowids = <<>>
    THEN load_all_chunks(d) @@ [fn |-> "load_all_chunks"]
    ELSE load_chunks_by_rowids(d, bm25_rowids)
            @@ [rowids |-> bm25_rowids, fn |-> "load_chunks_by_rowids"]

\* hybrid_search_expanded, from the sorted lexical ranking on: the record of
\* what the call computed and returned.
HybridFrom(d, query_embedding, lexical, bm25_calls, config) ==
    LET bm25_rowids == [i \in 1..Len(lexical) |-> lexical[i].rowid]
        loaded == ChooseCandidates(d, bm25_rowids)
        candidates == loaded.chunks
        load_call == IF loaded.fn = "load_all_chunks"
                     THEN [queried |-> loaded.queried, fn |-> "load_all_chunks"]
                     ELSE [queried |-> loaded.queried, rowids |-> loaded.rowids,
                           fn |-> "load_chunks_by_rowids"]
        scored == [i \in 1..Len(candidates) |->
                     [rowid |-> candidates[i].rowid,
                      sim |-> cosine_similarity(query_embedding, candidates[i].embedding)]]
        Kept(c) == PassesThreshold(c.sim, config.threshold)
        passed == SelectSeq(scored, Kept)
        semantic == StableSortByKey(passed, [i \in 1..Len(passed) |-> 0 - passed[i].sim])
        keys == Ascending({semantic[i].rowid : i \in 1..Len(semantic)}
                            \cup {lexical[i].rowid : i \in 1..Len(lexical)})
        unsorted == [i \in 1..Len(keys) |->
                       [rowid |-> keys[i],
                        score |-> RrfScore(RankIn(semantic, keys[i]), RankIn(lexical, keys[i]))]]
        fused == StableSortByKey(unsorted, [i \in 1..Len(unsorted) |-> 0 - unsorted[i].score])
        top == Truncate(fused, config.top_k)
        Loaded(f) == \E i \in 1..Len(candidates) : candidates[i].rowid = f.rowid
        found == SelectSeq(top, Loaded)
        out == [i \in 1..Len(found) |->
                  [chunk |-> candidates[CHOOSE j \in 1..Len(candidates) :
                                           candidates[j].rowid = found[i].rowid],
                   similarity |-> IF \E j \in 1..Len(semantic) : semantic[j].rowid = found[i].rowid
                                  THEN semantic[CHOOSE j \in 1..Len(semantic) :
                                                   semantic[j].rowid = found[i].rowid].sim
                                  ELSE 0]]
    IN  [results |-> IF candidates = <<>> THEN <<>> ELSE out,
         calls |-> Append(bm25_calls, load_call),
         lexical |-> lexical,
         semantic |-> IF candidates = <<>> THEN <<>> ELSE semantic,
         fused |-> IF candidates = <<>> THEN <<>> ELSE fused,
         path |-> "hybrid",
         ncandidates |-> Len(candidates)]

\* What hybrid_search_expanded returns when top_k * 40 panics.
HybridPanics ==
    [ok |-> FALSE, results |-> <<>>, calls |-> <<>>, lexical |-> <<>>, semantic |-> <<>>,
     fused |-> <<>>, path |-> "hybrid", ncandidates |-> 0, panic |-> TRUE]

\* What it returns when the load of the candidates returns Err.
HybridLoadFails(rec) ==
    [ok |-> FALSE, results |-> <<>>, calls |-> rec.calls, lexical |-> rec.lexical,
     semantic |-> <<>>, fused |-> <<>>, path |-> "hybrid", ncandidates |-> 0,
     panic |-> FALSE]

\* hybrid_search_expanded with the database calls that fail: faults.bm25 is
\* the set of positions of the bm25_search calls that return Err, faults.load
\* tells whether the load of the candidates does.  The merged map is a
\* HashMap, so rows of equal rank enter the lexical ranking in any order.
HybridSearchUnder(d, query_embedding, queries, config, faults) ==
    UNION {IF ~pool.ok THEN {HybridPanics}
           ELSE LET merged == MergeQueries(d, queries, pool.value, faults.bm25,
                                           {[all_bm25 |-> {}, calls |-> <<>>]})
                    recs == UNION {{HybridFrom(d, query_embedding, lexical, m.calls, config) :
                                      lexical \in OrdersByRank(m.all_bm25)} : m \in merged}
                IN  IF faults.load THEN {HybridLoadFails(rec) : rec \in recs} ELSE recs
           : pool \in candidate_pool_size_per_query(config.top_k)}

NoFaults == [bm25 |-> {}, load |-> FALSE]

\* hybrid_search_expanded on a database whose calls all succeed.
hybrid_search_expanded(d, query_embedding, queries, config) ==
    HybridSearchUnder(d, query_embedding, queries, config, NoFaults)

\* The semantic-only branch of search.
SemanticOnlyPath(d, query_embedding, config) ==
    LET loaded == load_all_chunks(d)
    IN  [results |-> IF loaded.chunks = <<>> THEN <<>>
                     ELSE semantic_only_search(loaded.chunks, query_embedding, config),
         calls |-> <<[queried |-> loaded.queried, fn |-> "load_all_chunks"]>>,
         lexical |-> <<>>,
         semantic |-> <<>>,
         fused |-> <<>>,
         path |-> "semantic_only",
         ncandidates |-> Len(loaded.chunks)]

\* str::lines: the pieces between line feeds; a last piece that is empty is
\* no line.
RECURSIVE LinesFrom(_, _)
LinesFrom(s, cur) ==
    IF s = <<>> THEN (IF cur = <<>> THEN <<>> ELSE <<cur>>)
    ELSE IF Head(s) = "\n" THEN <<cur>> \o LinesFrom(Tail(s), <<>>)
    ELSE LinesFrom(Tail(s), Append(cur, Head(s)))

lines(s) == LinesFrom(s, <<>>)

\* str::trim: white space is taken from both ends.
RECURSIVE TrimStart(_)
TrimStart(s) == IF s # <<>> /\ Head(s) \in WhiteSpace THEN TrimStart(Tail(s)) ELSE s

RECURSIVE TrimEnd(_)
TrimEnd(s) ==
    IF s # <<>> /\ s[Len(s)] \in WhiteSpace THEN TrimEnd(SubSeq(s, 1, Len(s) - 1)) ELSE s

trim(s) == TrimEnd(TrimStart(s))

\* Iterator::take(2) of expand_query.
MaxVariants == 2

\* Mutant of TakeVariants: every line of the completion is kept.
TakeAllVariants(ls) == ls

TakeVariants(ls) == Take(ls, MaxVariants)

\* expand_query.  chat is the outcome of client.chat: [response, ok].  A
\* failed call is reported on stderr and gives Ok(no variant).
expand_query(chat) ==
    IF chat.ok
    THEN LET ls == lines(chat.response)
             trimmed == [i \in 1..Len(ls) |-> trim(ls[i])]
         IN  TakeVariants(SelectSeq(trimmed, NonEmpty))
    ELSE <<>>

\* The values of the environment variable PROFUNDO_SEMANTIC_ONLY.
EnvValues == {"unset", "1", "0"}

\* Mutant of EnvOverride: any value of the variable switches the mode.
EnvOverrideAnyValue(semantic_only, env) == semantic_only \/ env # "unset"

\* config.semantic_only after the first statement of search.
EnvOverride(semantic_only, env) == semantic_only \/ env = "1"

\* Mutant of QueryEmbedding: the last query string is embedded.
EmbedLastQuery(query, queries) == EmbedText(queries[Len(queries)])

\* client.embed(query): the vector of the original query.
QueryEmbedding(query, queries) == EmbedText(query)

\* The steps of search that can return Err before any read of the store:
\* OpenRouterClient::from_env, Database::open and client.embed.
SearchFailures == {"none", "from_env", "open", "embed"}

NoChat == [called |-> FALSE]

\* What a search that returned Err leaves: no result and no read.
Failed(queries, chat) ==
    [ok |-> FALSE, results |-> <<>>, queries |-> queries, calls |-> <<>>,
     lexical |-> <<>>, semantic |-> <<>>, fused |-> <<>>, path |-> "none",
     ncandidates |-> 0, chat |-> chat]

\* search: the records of the calls it may make.  env is the value of
\* PROFUNDO_SEMANTIC_ONLY, chat the outcome of the completion call if it is
\* made, fails the step that returns Err.
search(d, query, config, env, chat, fails) ==
    LET cfg == [config EXCEPT !.semantic_only = EnvOverride(@, env)]
        called == [called |-> TRUE] @@ chat
        queries == IF cfg.expand THEN <<query>> \o expand_query(chat) ELSE <<query>>
        made == IF cfg.expand THEN called ELSE NoChat
        query_embedding == QueryEmbedding(query, queries)
        Done(rec) == rec @@ [ok |-> TRUE, queries |-> queries, chat |-> made]
    IN  IF fails \in {"from_env", "open"} THEN {Failed(<<>>, NoChat)}
        ELSE IF fails = "embed" THEN {Failed(queries, made)}
        ELSE IF cfg.semantic_only
        THEN {Done(SemanticOnlyPath(d, query_embedding, cfg))}
        ELSE {Done(rec) : rec \in hybrid_search_expanded(d, query_embedding, queries, cfg)}

(***************************************************************************)
(* Inputs.                                                                 *)
(***************************************************************************)
\* A file's size is an off_t: it fits the positive half of i64.
FileSizes == 0..(Pow2(SizeBits - 1) - 1)
FileMtimes == 1..MaxMtime

\* What process_session passes to store_chunks for the texts of a session
\* whose file declares the id csid: chunk i covers turn i-1, and comes with
\* the embedding of its text.
PairsOf(csid, texts) ==
    [i \in 1..Len(texts) |->
        [embedding |-> EmbedText(texts[i]),
         chunk |-> [session_id |-> csid, text |-> texts[i], turn_start |-> i - 1,
                    turn_end |-> i]]]

TextLists == SeqsUpTo(Texts, MaxChunks)

\* The texts of the behaviours that only exercise the store.
StoreTexts == {<<"a">>, <<"b">>}
StoreTextLists == SeqsUpTo(StoreTexts, MaxChunks)

(***************************************************************************)
(* Actions on the store.                                                   *)
(***************************************************************************)
SetDb(d) ==
    /\ chunks' = d.chunks
    /\ chunks_fts' = d.fts
    /\ sessions_processed' = d.processed

StoreChunks(session_id, file_size, file_mtime, pairs, failAt) ==
    LET n == Len(pairs)
        ok == Succeeds(n, failAt)
    IN  /\ nops < MaxOps
        /\ nops' = nops + 1
        /\ SetDb(store_chunks(Db, session_id, file_size, file_mtime, pairs, failAt))
        /\ op' = IF ok
                 THEN [name |-> "store_chunks", session_id |-> session_id, pairs |-> pairs,
                       file_size |-> file_size, file_mtime |-> file_mtime, ok |-> TRUE]
                 ELSE [name |-> "store_chunks", n |-> n, session_id |-> session_id,
                       failAt |-> failAt, ok |-> FALSE]
        /\ committed' = IF ok
                        THEN [committed EXCEPT ![session_id] =
                                 [present |-> TRUE, file_size |-> file_size,
                                  file_mtime |-> file_mtime]]
                        ELSE committed
        /\ UNCHANGED <<state, handle, tx>>

IsSessionProcessed(session_id, file_size, file_mtime) ==
    /\ nops < MaxOps
    /\ nops' = nops + 1
    /\ op' = [name |-> "is_session_processed", session_id |-> session_id,
              file_size |-> file_size, file_mtime |-> file_mtime,
              result |-> is_session_processed(Db, session_id, file_size, file_mtime)]
    /\ UNCHANGED <<chunks, chunks_fts, sessions_processed, committed, state, handle, tx>>

InitStore ==
    /\ chunks = {}
    /\ chunks_fts = {}
    /\ sessions_processed = [s \in Sessions |-> NoMarker]
    /\ op = NoOp
    /\ committed = [s \in Sessions |-> NoMarker]
    /\ nops = 0
    /\ state = {"chunks_fts_built"}
    /\ handle = TRUE
    /\ tx = NoTx

\* The first session stored is s1.
NextStore ==
    \/ \E sid \in (IF chunks = {} /\ nops = 0 THEN {"s1"} ELSE Sessions), csid \in Sessions,
          size \in FileSizes, mtime \in FileMtimes, texts \in StoreTextLists :
          \E failAt \in FailPoints(Len(texts)) :
             StoreChunks(sid, size, mtime, PairsOf(csid, texts), failAt)
    \/ \E sid \in Sessions, size \in FileSizes, mtime \in FileMtimes :
          IsSessionProcessed(sid, size, mtime)

SpecStore == InitStore /\ [][NextStore]_vars

(***************************************************************************)
(* Searching.  A behaviour of SpecSearch fills the store with store_chunks *)
(* calls as process_session makes them, then runs one search or one        *)
(* bm25_search.  Its searches run with PROFUNDO_SEMANTIC_ONLY unset and    *)
(* with network calls that succeed; SpecQuery below varies those.          *)
(***************************************************************************)
SearchQueries == {<<"a">>, <<"b">>, <<"a", " ", "b">>, <<Quote>>}
Bm25Queries == SearchQueries \cup {<<>>, <<" ", Quote, "\t">>}
VariantMenu == {<<"a">>, <<"a", " ", "b">>}
Thresholds == {30, 70}
TopKs == 0..MaxTopK
Limits == 0..MaxTopK

\* Vec<String>::join("\n"): the completion that has the given lines.
RECURSIVE JoinLines(_)
JoinLines(ls) ==
    IF ls = <<>> THEN <<>>
    ELSE IF Len(ls) = 1 THEN ls[1]
    ELSE ls[1] \o <<"\n">> \o JoinLines(Tail(ls))

\* The outcomes of client.chat: Ok with one of the responses, or Err.
ChatOutcomes(responses) ==
    {[ok |-> TRUE, response |-> r] : r \in responses} \cup {[ok |-> FALSE, response |-> <<>>]}

\* search.
Search(query, top_k, threshold, semantic_only, env, expand, chat, fails) ==
    LET config == [top_k |-> top_k, threshold |-> threshold,
                   semantic_only |-> semantic_only, expand |-> expand]
    IN  /\ nops < MaxOps
        /\ nops' = nops + 1
        /\ \E rec \in search(Db, query, config, env, chat, fails) :
              op' = rec @@ [name |-> "search", query |-> query, top_k |-> top_k,
                            threshold |-> threshold,
                            config |-> config,
                            semantic_only |-> EnvOverride(semantic_only, env),
                            env |-> env, fails |-> fails]
        /\ UNCHANGED <<chunks, chunks_fts, sessions_processed, committed, state, handle, tx>>

Bm25Search(query, limit) ==
    /\ nops < MaxOps
    /\ nops' = nops + 1
    /\ \E res \in bm25_search(Db, query, limit) :
          op' = res @@ [name |-> "bm25_search", query |-> query, limit |-> limit]
    /\ UNCHANGED <<chunks, chunks_fts, sessions_processed, committed, state, handle, tx>>

\* The first store is of s1, with any texts; a second one is of either
\* session, with the texts of the store behaviours.
NextSearch ==
    /\ op.name \notin {"search", "bm25_search"}
    /\ \/ /\ nops = 0
          /\ \E texts \in TextLists :
                StoreChunks("s1", 1, 1, PairsOf("s1", texts), Len(texts) + 4)
       \/ /\ nops > 0
          /\ \E sid \in Sessions, texts \in StoreTextLists :
                StoreChunks(sid, 1, 1, PairsOf(sid, texts), Len(texts) + 4)
       \/ \E query \in SearchQueries, top_k \in TopKs, threshold \in Thresholds,
             semantic_only \in BOOLEAN, expand \in BOOLEAN,
             variants \in SeqsUpTo(VariantMenu, MaxVariants) :
             /\ ~expand => variants = <<>>
             /\ Search(query, top_k, threshold, semantic_only, "unset", expand,
                       [ok |-> TRUE, response |-> JoinLines(variants)], "none")
       \/ \E query \in Bm25Queries, limit \in Limits : Bm25Search(query, limit)

SpecSearch == InitStore /\ [][NextSearch]_vars

(***************************************************************************)
(* Resolving the query.  A behaviour of SpecQuery stores one session and   *)
(* runs one search, with any value of the environment variable, any        *)
(* outcome of the completion call and any failing step.                    *)
(***************************************************************************)
MaxResponseLines == 3   \* lines of the completion of expand_query

\* The lines a completion is made of: a query, a query between white space,
\* an empty line and a blank one.
ResponseLines == {<<"a">>, <<" ", "b", "\t">>, <<>>, <<" ">>}
Responses == {JoinLines(ls) : ls \in SeqsUpTo(ResponseLines, MaxResponseLines)}

NextQuery ==
    \/ /\ op = NoOp
       /\ \E texts \in StoreTextLists :
             StoreChunks("s1", 1, 1, PairsOf("s1", texts), Len(texts) + 4)
    \/ /\ op.name # "search"
       /\ \E semantic_only \in BOOLEAN, env \in EnvValues, expand \in BOOLEAN,
             chat \in ChatOutcomes(Responses), fails \in SearchFailures :
             /\ (~expand \/ fails \in {"from_env", "open"})
                   => chat = [ok |-> FALSE, response |-> <<>>]
             /\ Search(<<"a">>, 1, 30, semantic_only, env, expand, chat, fails)

SpecQuery == InitStore /\ [][NextQuery]_vars

(***************************************************************************)
(* Sanitizing.  A behaviour of SpecSanitize applies sanitize_fts_query to  *)
(* one string.                                                             *)
(***************************************************************************)
SanitizeChars == {"a", "O", "R", Quote, " ", "\t", "("}

Sanitize(query) ==
    /\ op' = [name |-> "sanitize_fts_query", query |-> query,
              safe_query |-> sanitize_fts_query(query)]
    /\ UNCHANGED <<chunks, chunks_fts, sessions_processed, committed, nops, state, handle, tx>>

NextSanitize ==
    /\ op = NoOp
    /\ \E query \in SeqsUpTo(SanitizeChars, MaxQueryLen) : Sanitize(query)

SpecSanitize == InitStore /\ [][NextSanitize]_vars

(***************************************************************************)
(* display_with_context.  A turn is known by its index; the session of the *)
(* result is in the cache of display_results, or in a file that is there   *)
(* or not and that can be read or not.                                     *)
(***************************************************************************)
\* usize::saturating_sub.
saturating_sub(a, b) == IF a > b THEN a - b ELSE 0

\* a + b on usize: an overflow panics in a build with overflow checks and
\* wraps around in a build without.
AddUsizeIn(checks, a, b) ==
    IF a + b <= UsizeMax THEN [ok |-> TRUE, value |-> a + b]
    ELSE IF checks THEN [ok |-> FALSE, value |-> 0]
    ELSE [ok |-> TRUE, value |-> (a + b) % Pow2(UsizeBits)]

\* The outcomes of a + b over the builds.
AddUsize(a, b) == {AddUsizeIn(checks, a, b) : checks \in BOOLEAN}

\* The stored chunk is printed: display_chunk_indented, after the warning
\* if there is one.
ShowsChunk(warning, inserted) ==
    [warning |-> warning, inserted |-> inserted, outcome |-> "chunk", shown |-> <<>>]

Panics(inserted) ==
    [warning |-> "none", inserted |-> inserted, outcome |-> "panic", shown |-> <<>>]

\* is_match of a turn of the slice.
IsMatch(turn_idx, turn_start, turn_end) == turn_idx >= turn_start /\ turn_idx < turn_end

\* display_with_context: the outcomes of the call.  session tells where the
\* turns come from ("cache", "file") or why there are none ("missing",
\* "unreadable"), and how many there are.
display_with_context(chunk, context, session) ==
    IF chunk.turn_start < 0 \/ chunk.turn_end < 0
    THEN {ShowsChunk("invalid turn indices", FALSE)}
    ELSE IF session.source = "missing"
    THEN {ShowsChunk("session file not found", FALSE)}
    ELSE IF session.source = "unreadable"
    THEN {ShowsChunk("failed to parse session", FALSE)}
    ELSE LET inserted == session.source = "file"
             len == session.len
             turn_start == chunk.turn_start
             turn_end == chunk.turn_end
         IN  IF len = 0 \/ turn_start >= len
             THEN {ShowsChunk("turn indices out of range", inserted)}
             ELSE LET start == saturating_sub(turn_start, context)
                      From(sum) ==
                          IF ~sum.ok THEN Panics(inserted)
                          ELSE LET end == IF sum.value < len THEN sum.value ELSE len
                               IN  IF start > end THEN Panics(inserted)
                                   ELSE IF start = end THEN ShowsChunk("none", inserted)
                                   ELSE [warning |-> "none", inserted |-> inserted,
                                         outcome |-> "turns",
                                         shown |-> [j \in 1..(end - start) |->
                                            [turn_idx |-> start + j - 1,
                                             marker |-> IF IsMatch(start + j - 1, turn_start, turn_end)
                                                        THEN "match" ELSE "context"]]]
                  IN  {From(sum) : sum \in AddUsize(turn_end, context)}

(***************************************************************************)
(* Hybrid search.  A behaviour of SpecHybrid stores chunks and then runs   *)
(* hybrid_search_expanded once, with any of its database calls failing and *)
(* with a top_k small or so large that top_k * 40 exceeds usize.           *)
(***************************************************************************)
\* The smallest top_k whose pool size overflows.
OverflowTopK == (UsizeMax \div PoolFactor) + 1

HybridTopKs == (0..MaxTopK) \cup {OverflowTopK}

HybridQueries == {<<"a">>, <<"b">>, <<Quote>>}

HybridSearch(query, variants, top_k, threshold, failing, load_fails) ==
    LET config == [top_k |-> top_k, threshold |-> threshold,
                   semantic_only |-> FALSE, expand |-> variants # <<>>]
        queries == <<query>> \o variants
        faults == [bm25 |-> failing, load |-> load_fails]
    IN  /\ nops < MaxOps
        /\ nops' = nops + 1
        /\ \E rec \in HybridSearchUnder(Db, EmbedText(query), queries, config, faults) :
              op' = rec @@ [name |-> "hybrid_search_expanded", query |-> query, ok |-> TRUE,
                            top_k |-> top_k, threshold |-> threshold, queries |-> queries,
                            panic |-> FALSE, faults |-> faults]
        /\ UNCHANGED <<chunks, chunks_fts, sessions_processed, committed, state, handle, tx>>

NextHybrid ==
    /\ op.name # "hybrid_search_expanded"
    /\ \/ /\ op = NoOp
          /\ \E texts \in TextLists :
                StoreChunks("s1", 1, 1, PairsOf("s1", texts), Len(texts) + 4)
       \/ /\ op.name = "store_chunks"
          /\ op.session_id = "s1"
          /\ \E texts \in {<<<<"a">>>>, <<<<"b">>, <<"a", " ", "b">>>>} :
                StoreChunks("s2", 1, 1, PairsOf("s2", texts), Len(texts) + 4)
       \/ \E query \in HybridQueries, variants \in SeqsUpTo(VariantMenu, 1),
             top_k \in HybridTopKs, threshold \in Thresholds,
             failing \in SUBSET (1..2), load_fails \in BOOLEAN :
             /\ failing \subseteq 1..(1 + Len(variants))
             /\ HybridSearch(query, variants, top_k, threshold, failing, load_fails)

SpecHybrid == InitStore /\ [][NextHybrid]_vars

(***************************************************************************)
(* A search beside a writer.  hybrid_search_expanded runs its statements   *)
(* one by one outside a transaction, and `profundo embed` may run in       *)
(* another process: in a behaviour of SpecRace a store_chunks call may     *)
(* commit after the lexical queries of a search and before its load.       *)
(***************************************************************************)
\* The rows the lexical ranking names, as the store holds them.
RowsNamed(d, lexical) ==
    {[rowid |-> r.rowid, session_id |-> r.session_id, text |-> r.text] :
        r \in {q \in d.chunks : \E i \in 1..Len(lexical) : lexical[i].rowid = q.rowid}}

\* recall.rs:150-174: the bm25_search calls and the sorted lexical ranking.
LexicalQuery(query, top_k, threshold) ==
    /\ op.name = "store_chunks"
    /\ \E pool \in candidate_pool_size_per_query(top_k) :
          /\ pool.ok
          /\ \E m \in MergeQueries(Db, <<query>>, pool.value, {},
                                   {[all_bm25 |-> {}, calls |-> <<>>]}) :
                \E lexical \in OrdersByRank(m.all_bm25) :
                   op' = [name |-> "lexical_query", query |-> query, top_k |-> top_k,
                          threshold |-> threshold, calls |-> m.calls, lexical |-> lexical,
                          matched |-> RowsNamed(Db, lexical), between |-> <<>>]
    /\ UNCHANGED <<chunks, chunks_fts, sessions_processed, committed, nops, state, handle, tx>>

\* A store_chunks call of another process commits while the search is
\* between its lexical queries and its load.
StoreBetween(session_id, pairs) ==
    /\ op.name = "lexical_query"
    /\ op.between = <<>>
    /\ SetDb(store_chunks(Db, session_id, 1, 2, pairs, Len(pairs) + 4))
    /\ op' = [op EXCEPT !.between = <<session_id>>]
    /\ committed' = [committed EXCEPT ![session_id] =
                        [present |-> TRUE, file_size |-> 1, file_mtime |-> 2]]
    /\ UNCHANGED <<nops, state, handle, tx>>

\* recall.rs:176-243: the load of the candidates, the fusion, the results.
LoadAndFuse ==
    /\ op.name = "lexical_query"
    /\ op' = HybridFrom(Db, EmbedText(op.query), op.lexical, op.calls,
                        [top_k |-> op.top_k, threshold |-> op.threshold])
                @@ [name |-> "hybrid_search_expanded", query |-> op.query, ok |-> TRUE,
                    top_k |-> op.top_k, threshold |-> op.threshold,
                    matched |-> op.matched, between |-> op.between]
    /\ UNCHANGED <<chunks, chunks_fts, sessions_processed, committed, nops, state, handle, tx>>

NextRace ==
    \/ /\ op = NoOp
       /\ \E texts \in TextLists : StoreChunks("s1", 1, 1, PairsOf("s1", texts), Len(texts) + 4)
    \/ /\ op.name = "store_chunks" /\ op.session_id = "s1"
       /\ \E texts \in StoreTextLists :
             StoreChunks("s2", 1, 1, PairsOf("s2", texts), Len(texts) + 4)
    \/ \E query \in {<<"a">>, <<"b">>}, top_k \in 1..MaxTopK, threshold \in Thresholds :
          LexicalQuery(query, top_k, threshold)
    \/ \E sid \in Sessions, texts \in StoreTextLists \cup {<<>>} :
          StoreBetween(sid, PairsOf(sid, texts))
    \/ LoadAndFuse

SpecRace == InitStore /\ [][NextRace]_vars

(***************************************************************************)
(* Displaying.  A behaviour of SpecDisplay shows one result with context:  *)
(* any stored turn range, any context width, any state of the session.     *)
(***************************************************************************)
SessionStates ==
    {[source |-> "missing", len |-> 0], [source |-> "unreadable", len |-> 0]}
        \cup {[source |-> src, len |-> n] : src \in {"cache", "file"}, n \in 0..MaxTurns}

\* The context widths: small ones, and the largest a usize holds.
Contexts == {0, 1, 2, UsizeMax - 1, UsizeMax}

DisplayWithContext(turn_start, turn_end, context, session) ==
    /\ \E out \in display_with_context([turn_start |-> turn_start, turn_end |-> turn_end],
                                       context, session) :
          op' = out @@ [name |-> "display_with_context", turn_start |-> turn_start,
                        turn_end |-> turn_end, context |-> context, session |-> session]
    /\ UNCHANGED <<chunks, chunks_fts, sessions_processed, committed, nops, state, handle, tx>>

NextDisplay ==
    /\ op = NoOp
    /\ \E turn_start \in (0 - 1)..I32Max, turn_end \in (0 - 1)..I32Max,
          context \in Contexts, session \in SessionStates :
          DisplayWithContext(turn_start, turn_end, context, session)

SpecDisplay == InitStore /\ [][NextDisplay]_vars

(***************************************************************************)
(* display_results.  A behaviour of SpecResults displays the results of a  *)
(* search and then the results of a second one: any conversations, with    *)
(* session files that are missing, unreadable or readable.  The related    *)
(* learnings that display_results prints last are read from a store this   *)
(* model does not hold.                                                    *)
(***************************************************************************)
MaxResults == 3          \* results given to one display_results call

\* Mutant of NewSessionCache: the map of the previous invocation is kept.
KeptSessionCache(previous) == previous

\* HashMap::new(): the session_cache of an invocation starts empty.
NewSessionCache(previous) == <<>>

\* The loop of display_results over the results left: the ways it may end,
\* each with the log of what was done for every result.  files gives the
\* state of each conversation's session file.
RECURSIVE DisplayLoop(_, _, _, _, _)
DisplayLoop(results, context, files, session_cache, log) ==
    IF results = <<>> THEN {[panic |-> FALSE, session_cache |-> session_cache, log |-> log]}
    ELSE IF context = <<>>
    THEN DisplayLoop(Tail(results), context, files, session_cache,
                     Append(log, [session_id |-> Head(results).session_id, inserted |-> FALSE,
                                  outcome |-> "preview", source |-> "none", len |-> 0]))
    ELSE LET result == Head(results)
             sid == result.session_id
             session == IF sid \in DOMAIN session_cache
                        THEN [source |-> "cache", len |-> session_cache[sid]]
                        ELSE files[sid]
             looked_up == result.turn_start >= 0 /\ result.turn_end >= 0
             Entry(out) == [session_id |-> sid,
                            inserted |-> out.inserted,
                            outcome |-> out.outcome,
                            source |-> IF looked_up THEN session.source ELSE "none", len |-> IF looked_up THEN session.len ELSE 0]
             After(out) == IF out.inserted THEN (sid :> session.len) @@ session_cache
                           ELSE session_cache
         IN  UNION {IF out.outcome = "panic"
                    THEN {[panic |-> TRUE, session_cache |-> After(out),
                           log |-> Append(log, Entry(out))]}
                    ELSE DisplayLoop(Tail(results), context, files, After(out),
                                     Append(log, Entry(out)))
                    : out \in display_with_context(result, context[1], session)}

\* display_results: the ways the call may end.  previous is the
\* session_cache the invocation before this one ended with.
display_results(results, context, files, previous) ==
    IF results = <<>> THEN {[panic |-> FALSE, session_cache |-> <<>>, log |-> <<>>]}
    ELSE DisplayLoop(results, context, files, NewSessionCache(previous), <<>>)

FileStates ==
    {[source |-> "missing", len |-> 0], [source |-> "unreadable", len |-> 0],
     [source |-> "file", len |-> 0], [source |-> "file", len |-> 3]}

DisplayedResults ==
    {[session_id |-> sid, turn_start |-> r[1], turn_end |-> r[2]] :
        sid \in Sessions, r \in {<<0, 1>>, <<0 - 1, 0>>}}

\* config.context_turns: None is <<>>, Some(c) is <<c>>.
ContextTurns == {<<>>, <<1>>, <<UsizeMax>>}

DisplayResults(results, context, files) ==
    LET previous == IF op.name = "display_results" THEN op.session_cache ELSE <<>>
    IN  /\ \E out \in display_results(results, context, files, previous) :
              op' = out @@ [name |-> "display_results", results |-> results,
                            context |-> context, files |-> files,
                            earlier |-> DOMAIN previous]
        /\ nops' = nops + 1
        /\ UNCHANGED <<chunks, chunks_fts, sessions_processed, committed, state, handle, tx>>

NextResults ==
    \/ /\ op = NoOp
       /\ \E results \in SeqsUpTo(DisplayedResults, MaxResults),
             context \in ContextTurns, files \in [Sessions -> FileStates] :
             DisplayResults(results, context, files)
    \/ /\ op.name = "display_results"
       /\ nops = 1
       /\ ~op.panic
       /\ \E results \in SeqsUpTo(DisplayedResults, 2) :
             DisplayResults(results, op.context, op.files)

SpecResults == InitStore /\ [][NextResults]_vars

(***************************************************************************)
(* Loading.  A behaviour of SpecLoad opens a store of two rows, the first  *)
(* written by store_chunks and the second with any blob in its embedding   *)
(* column, and reads it once.                                              *)
(***************************************************************************)
MaxBlobLen == 5       \* bytes of a stored blob

BlobBytes == {0, 1, 128, 255}
Blobs == SeqsUpTo(BlobBytes, MaxBlobLen)

\* The store of SpecLoad whose second row holds the blob bytes.
StoreWithBlob(bytes) ==
    LET d == TxInsertAll([chunks |-> {}, fts |-> {},
                          processed |-> [s \in Sessions |-> NoMarker]],
                         PairsOf("s1", <<<<"a">>, <<"b">>>>))
    IN  [d EXCEPT !.chunks = {IF r.rowid = 2 THEN [r EXCEPT !.embedding = bytes] ELSE r
                              : r \in @}]

InitLoad ==
    /\ \E bytes \in Blobs :
          /\ chunks = StoreWithBlob(bytes).chunks
          /\ chunks_fts = StoreWithBlob(bytes).fts
    /\ sessions_processed = [s \in Sessions |-> NoMarker]
    /\ op = NoOp
    /\ committed = [s \in Sessions |-> NoMarker]
    /\ nops = 0
    /\ state = {"chunks_fts_built"}
    /\ handle = TRUE
    /\ tx = NoTx

LoadAllChunks ==
    /\ op' = load_all_chunks(Db) @@ [name |-> "load_all_chunks"]
    /\ UNCHANGED <<chunks, chunks_fts, sessions_processed, committed, nops, state, handle, tx>>

LoadChunksByRowids(rowids) ==
    /\ op' = load_chunks_by_rowids(Db, rowids)
                @@ [name |-> "load_chunks_by_rowids", rowids |-> rowids]
    /\ UNCHANGED <<chunks, chunks_fts, sessions_processed, committed, nops, state, handle, tx>>

NextLoad ==
    /\ op = NoOp
    /\ \/ LoadAllChunks
       \/ \E rowids \in {<<2>>, <<2, 1>>, <<>>} : LoadChunksByRowids(rowids)

SpecLoad == InitLoad /\ [][NextLoad]_vars

(***************************************************************************)
(* Opening.  A behaviour of SpecOpen starts with no store or with a store  *)
(* written before the index was introduced (rows in chunks, nothing in     *)
(* chunks_fts, no key in state), and runs Database::open and store_chunks  *)
(* calls, each of which may fail; store_chunks needs a Database.           *)
(***************************************************************************)
\* Mutant of Rebuild: the rebuild indexes nothing.
RebuildNothing(d) == d

\* INSERT INTO chunks_fts(chunks_fts) VALUES('rebuild'): the index is
\* built again from the content table.
Rebuild(d) == [d EXCEPT !.fts = {[rowid |-> r.rowid, text |-> r.text] : r \in d.chunks}]

\* Where Database::open fails: opening the connection, the schema batch,
\* the SELECT on state, the rebuild, the INSERT into state.
OpenFailures == {"none", "connection", "schema", "query", "rebuild", "mark"}

\* Database::open with init_schema: [d, state, ok, rebuilt].  The schema
\* batch creates what does not exist and changes no row.
open(d, st, fails) ==
    IF fails \in {"connection", "schema", "query"}
    THEN [state |-> st, d |-> d, ok |-> FALSE, rebuilt |-> FALSE]
    ELSE IF "chunks_fts_built" \in st
    THEN [state |-> st, d |-> d, ok |-> TRUE, rebuilt |-> FALSE]
    ELSE IF fails = "rebuild"
    THEN [state |-> st, d |-> d, ok |-> FALSE, rebuilt |-> FALSE]
    ELSE IF fails = "mark"
    THEN [state |-> st, d |-> Rebuild(d), ok |-> FALSE, rebuilt |-> TRUE]
    ELSE [state |-> st \cup {"chunks_fts_built"}, d |-> Rebuild(d), ok |-> TRUE,
          rebuilt |-> TRUE]

Open(fails) ==
    LET res == open(Db, state, fails)
    IN  /\ nops < MaxOps
        /\ nops' = nops + 1
        /\ SetDb(res.d)
        /\ state' = res.state
        /\ handle' = res.ok
        /\ op' = [name |-> "open", ok |-> res.ok, fails |-> fails, rebuilt |-> res.rebuilt,
                  built_before |-> "chunks_fts_built" \in state]
        /\ UNCHANGED <<committed, tx>>

\* The rows of a store written before the index was introduced.
LegacyRows(texts) ==
    TxInsertAll([chunks |-> {}, fts |-> {}, processed |-> [s \in Sessions |-> NoMarker]],
                PairsOf("s1", texts)).chunks

InitOpen ==
    /\ \E texts \in StoreTextLists \cup {<<>>} : chunks = LegacyRows(texts)
    /\ chunks_fts = {}
    /\ sessions_processed = [s \in Sessions |-> NoMarker]
    /\ op = NoOp
    /\ committed = [s \in Sessions |-> NoMarker]
    /\ nops = 0
    /\ state = {}
    /\ handle = FALSE
    /\ tx = NoTx

NextOpen ==
    \/ \E fails \in OpenFailures : Open(fails)
    \/ /\ handle
       /\ \E sid \in Sessions, texts \in StoreTextLists :
             \E failAt \in FailPoints(Len(texts)) :
                StoreChunks(sid, 1, 1, PairsOf(sid, texts), failAt)

SpecOpen == InitOpen /\ [][NextOpen]_vars

(***************************************************************************)
(* Transactions.  A behaviour of SpecTx runs store_chunks statement by     *)
(* statement on one connection while another connection reads.  chunks,    *)
(* chunks_fts and sessions_processed are the committed database; tx holds  *)
(* the arguments of the call in progress and the number of its statements  *)
(* that have run.                                                          *)
(***************************************************************************)
\* What the writing connection sees inside its transaction.
TxView(d, t) ==
    IF t.active
    THEN TxAfter(d, t.session_id, t.file_size, t.file_mtime, t.pairs, t.done)
    ELSE d

\* Mutant of Visible: the statements of store_chunks run without a
\* transaction, each visible as soon as it has run.
VisibleUncommitted(d, t) == TxView(d, t)

\* What another connection reads: the committed database, nothing of a
\* transaction that has not committed.
Visible(d, t) == d

\* conn.transaction().
TxBegin(session_id, file_size, file_mtime, pairs) ==
    /\ ~tx.active
    /\ nops < MaxOps
    /\ nops' = nops + 1
    /\ tx' = [active |-> TRUE, session_id |-> session_id, pairs |-> pairs,
              file_size |-> file_size, file_mtime |-> file_mtime, done |-> 0]
    /\ UNCHANGED <<chunks, chunks_fts, sessions_processed, op, committed, state, handle>>

\* The next statement of the call runs: the DELETE, an INSERT, the marker.
TxStep ==
    /\ tx.active
    /\ tx.done < Len(tx.pairs) + 2
    /\ tx' = [tx EXCEPT !.done = @ + 1]
    /\ UNCHANGED <<chunks, chunks_fts, sessions_processed, op, committed, nops, state, handle>>

\* The next statement, or the COMMIT, fails: the call returns Err and the
\* transaction is rolled back.
TxFail ==
    /\ tx.active
    /\ tx' = NoTx
    /\ op' = [name |-> "store_chunks", n |-> Len(tx.pairs), session_id |-> tx.session_id,
              failAt |-> tx.done + 1, ok |-> FALSE]
    /\ UNCHANGED <<chunks, chunks_fts, sessions_processed, committed, nops, state, handle>>

\* tx.commit().
TxCommit ==
    /\ tx.active
    /\ tx.done = Len(tx.pairs) + 2
    /\ SetDb(TxView(Db, tx))
    /\ tx' = NoTx
    /\ op' = [name |-> "store_chunks", session_id |-> tx.session_id, pairs |-> tx.pairs,
              file_size |-> tx.file_size, file_mtime |-> tx.file_mtime, ok |-> TRUE]
    /\ committed' = [committed EXCEPT ![tx.session_id] =
                        [present |-> TRUE, file_size |-> tx.file_size,
                         file_mtime |-> tx.file_mtime]]
    /\ UNCHANGED <<nops, state, handle>>

\* A read on another connection.  While a transaction is open the read may
\* also find the database locked and return Err.
ReaderLoadAll ==
    /\ op' = load_all_chunks(Visible(Db, tx))
                @@ [name |-> "load_all_chunks", ok |-> TRUE, during |-> tx.active]
    /\ UNCHANGED <<chunks, chunks_fts, sessions_processed, committed, nops, state, handle, tx>>

ReaderLoadByRowids(rowids) ==
    /\ op' = load_chunks_by_rowids(Visible(Db, tx), rowids)
                @@ [name |-> "load_chunks_by_rowids", rowids |-> rowids, ok |-> TRUE,
                    during |-> tx.active]
    /\ UNCHANGED <<chunks, chunks_fts, sessions_processed, committed, nops, state, handle, tx>>

ReaderBm25Search(query, limit) ==
    /\ \E res \in bm25_search(Visible(Db, tx), query, limit) :
          op' = res @@ [name |-> "bm25_search", query |-> query, limit |-> limit,
                        during |-> tx.active]
    /\ UNCHANGED <<chunks, chunks_fts, sessions_processed, committed, nops, state, handle, tx>>

ReaderBusy(name) ==
    /\ tx.active
    /\ op' = [name |-> name, ok |-> FALSE, during |-> TRUE]
    /\ UNCHANGED <<chunks, chunks_fts, sessions_processed, committed, nops, state, handle, tx>>

ReadNames == {"load_all_chunks", "load_chunks_by_rowids", "bm25_search"}

NextTx ==
    \/ \E sid \in Sessions, texts \in StoreTextLists : TxBegin(sid, 1, 1, PairsOf(sid, texts))
    \/ TxStep
    \/ TxFail
    \/ TxCommit
    \/ ReaderLoadAll
    \/ \E rowids \in {<<1>>, <<2, 1>>} : ReaderLoadByRowids(rowids)
    \/ ReaderBm25Search(<<"a">>, MaxTopK)
    \/ \E name \in ReadNames : ReaderBusy(name)

SpecTx == InitStore /\ [][NextTx]_vars

(***************************************************************************)
(* Embedding runs.  A behaviour of SpecEmbed processes sessions: it cuts   *)
(* the turns of a session into chunks, has them embedded and stores them.  *)
(* A turn is known by its user text; the labels and separators that        *)
(* extract_text_chunks puts around the turns of a chunk are written as one *)
(* blank between them.                                                     *)
(***************************************************************************)
RECURSIVE JoinTurns(_)
JoinTurns(ts) ==
    IF ts = <<>> THEN <<>>
    ELSE IF Len(ts) = 1 THEN ts[1]
    ELSE ts[1] \o <<" ">> \o JoinTurns(Tail(ts))

\* if chunk_turns.is_empty() { continue; }
KeepChunk(i, end) == i # end

\* The sliding window from turn i on: [ok, chunks]; ok is FALSE when the
\* sum i + chunk_size or the slice turns[i..end] panics.
RECURSIVE ChunksFrom(_, _, _, _, _, _)
ChunksFrom(i, id, turns, chunk_size, step, checks) ==
    IF i >= Len(turns) THEN [chunks |-> <<>>, ok |-> TRUE]
    ELSE LET sum == AddUsizeIn(checks, i, chunk_size)
             end == Min(sum.value, Len(turns))
         IN  IF ~sum.ok \/ i > end THEN [chunks |-> <<>>, ok |-> FALSE]
             ELSE LET rest == ChunksFrom(i + step, id, turns, chunk_size, step, checks)
                      chunk == [session_id |-> id,
                                text |-> JoinTurns(SubSeq(turns, i + 1, end)),
                                turn_start |-> i, turn_end |-> end]
                  IN  IF ~rest.ok THEN rest
                      ELSE IF KeepChunk(i, end)
                      THEN [chunks |-> <<chunk>> \o rest.chunks, ok |-> TRUE]
                      ELSE rest

\* Session::extract_text_chunks on a session with the given turns.
extract_text_chunks(id, turns, chunk_size, overlap, checks) ==
    LET diff == saturating_sub(chunk_size, overlap)
        step == IF diff > 1 THEN diff ELSE 1
    IN  ChunksFrom(0, id, turns, chunk_size, step, checks)

\* process_session: [d, outcome, error, chunks_count].  parses tells whether
\* Session::from_file returns the session, embeds whether embed_batch
\* returns the embeddings; failAt is the statement store_chunks fails at.
process_session(d, session_id, parses, turns, size, mtime, chunk_size, overlap, checks, embeds, failAt) ==
    LET ex == extract_text_chunks(session_id, turns, chunk_size, overlap, checks)
        n == Len(ex.chunks)
        pairs == [k \in 1..n |-> [embedding |-> EmbedText(ex.chunks[k].text),
                                  chunk |-> ex.chunks[k]]]
        stored == store_chunks(d, session_id, size, mtime, pairs, failAt)
    IN  IF ~parses THEN [d |-> d, chunks_count |-> 0, outcome |-> "err", error |-> "parse"]
        ELSE IF ~ex.ok THEN [d |-> d, chunks_count |-> 0, outcome |-> "panic", error |-> "panic"]
        ELSE IF n > 0 /\ ~embeds
        THEN [d |-> d, chunks_count |-> 0, outcome |-> "err", error |-> "embed"]
        ELSE IF ~Succeeds(n, failAt)
        THEN [d |-> stored, chunks_count |-> 0, outcome |-> "err", error |-> "store"]
        ELSE [d |-> stored, chunks_count |-> n, outcome |-> "ok", error |-> "none"]

ChunkSizes == {0, 1, 2, 3, UsizeMax}
Overlaps == {0, 1, 3, UsizeMax}

\* The session files: a session of n turns.
TurnsOf(n) == [k \in 1..n |-> <<"a">>]

\* The ways a run goes: from_file, embed_batch or store_chunks fails, or none.
RunFailures == {"none", "parse", "embed", "store"}

MaxRuns == 2          \* sessions processed in one behaviour

TurnCounts == {0, 1, 3, MaxTurns - 2, MaxTurns}

\* The turn ranges of the chunks, in the order extract_text_chunks returns them.
RangesOf(cs) == [k \in 1..Len(cs) |-> [turn_start |-> cs[k].turn_start,
                                       turn_end |-> cs[k].turn_end]]

ProcessSession(session_id, nturns, chunk_size, overlap, checks, fails) ==
    LET turns == TurnsOf(nturns)
        ex == extract_text_chunks(session_id, turns, chunk_size, overlap, checks)
        n == Len(ex.chunks)
        failAt == IF fails = "store" THEN n + 3 ELSE n + 4
        res == process_session(Db, session_id, fails # "parse", turns, 1, 1, chunk_size,
                               overlap, checks, fails # "embed", failAt)
    IN  /\ nops < MaxRuns
        /\ nops' = nops + 1
        /\ SetDb(res.d)
        /\ op' = [name |-> "process_session", session_id |-> session_id,
                  chunks_count |-> res.chunks_count, outcome |-> res.outcome,
                  chunk_size |-> chunk_size, overlap |-> overlap, nturns |-> nturns,
                  extracted |-> IF fails = "parse" THEN <<>>
                                ELSE <<[ok |-> ex.ok, ranges |-> RangesOf(ex.chunks)]>>]
        /\ committed' = IF res.outcome = "ok"
                        THEN [committed EXCEPT ![session_id] =
                                 [present |-> TRUE, file_size |-> 1, file_mtime |-> 1]]
                        ELSE committed
        /\ UNCHANGED <<state, handle, tx>>

\* The two builds differ only where a sum overflows; the second session of a
\* behaviour is parsed and embedded.
NextEmbed ==
    \E nturns \in TurnCounts, chunk_size \in ChunkSizes, overlap \in Overlaps,
       fails \in (IF nops = 0 THEN RunFailures ELSE {"none", "store"}) :
       \E checks \in (IF chunk_size = UsizeMax THEN BOOLEAN ELSE {TRUE}) :
          ProcessSession("s1", nturns, chunk_size, overlap, checks, fails)

SpecEmbed == InitStore /\ [][NextEmbed]_vars

(***************************************************************************)
(* Whole runs.  A behaviour of SpecRun is a sequence of embed runs over a  *)
(* sessions directory whose files change between the runs.  A file is      *)
(* [present, size, mtime, nturns]; listing is the order in which WalkDir   *)
(* yields the files.                                                       *)
(***************************************************************************)
NoFile == [present |-> FALSE, size |-> 0, mtime |-> 0, nturns |-> 0]

\* discover_sessions: the (session_id, size, mtime) of the listed files,
\* sorted by mtime with a stable sort.
discover_sessions(dir, listing) ==
    LET found == [i \in 1..Len(listing) |->
                    [session_id |-> listing[i], size |-> dir[listing[i]].size,
                     mtime |-> dir[listing[i]].mtime]]
    IN  StableSortByKey(found, [i \in 1..Len(found) |-> found[i].mtime])

\* Mutant of NeedsProcessing: every discovered session is processed.
NeedsAlways(d, s, force_reprocess) == TRUE

\* config.force_reprocess || !db.is_session_processed(session_id, size, mtime)
NeedsProcessing(d, s, force_reprocess) ==
    force_reprocess \/ ~is_session_processed(d, s.session_id, s.size, s.mtime)

NoStats == [processed |-> 0, skipped |-> 0, chunks_created |-> 0, errors |-> 0]

\* Err(e) => stats.errors += 1
CountErr(stats) == [stats EXCEPT !.errors = @ + 1]

\* The call of process_session for the session s of to_process.  fails
\* gives, for each session, the call of process_session that fails for it.
SessionResult(d, s, dir, config, checks, fails) ==
    LET sid == s.session_id
        turns == TurnsOf(dir[sid].nturns)
        n == Len(extract_text_chunks(sid, turns, config.chunk_size, config.overlap,
                                     checks).chunks)
        failAt == IF fails[sid] = "store" THEN n + 3 ELSE n + 4
    IN  process_session(d, sid, fails[sid] # "parse", turns, s.size, s.mtime,
                        config.chunk_size, config.overlap, checks,
                        fails[sid] # "embed", failAt)

\* What the run notes of the session s and of the result res of its
\* process_session.
LogEntry(d, s, res) ==
    [session_id |-> s.session_id, chunks_count |-> res.chunks_count, size |-> s.size,
     mtime |-> s.mtime, outcome |-> res.outcome, error |-> res.error,
     was_processed |-> is_session_processed(d, s.session_id, s.size, s.mtime)]

\* The arms of the match on the result of process_session.
StatsAfter(stats, res) ==
    IF res.outcome = "ok"
    THEN [stats EXCEPT !.processed = @ + 1, !.chunks_created = @ + res.chunks_count]
    ELSE CountErr(stats)

\* The loop of run over to_process: [d, stats, log, outcome].  A panic
\* inside process_session ends the loop and the run.
RECURSIVE ProcessAll(_, _, _, _, _, _, _, _)
ProcessRest(res, d, to_process, dir, config, checks, fails, stats, log) ==
    IF res.outcome = "panic"
    THEN [d |-> d, outcome |-> "panic", log |-> log, stats |-> stats]
    ELSE ProcessAll(res.d, Tail(to_process), dir, config, checks, fails,
                    StatsAfter(stats, res), log)

ProcessAll(d, to_process, dir, config, checks, fails, stats, log) ==
    IF to_process = <<>> THEN [d |-> d, outcome |-> "ok", log |-> log, stats |-> stats]
    ELSE ProcessRest(SessionResult(d, Head(to_process), dir, config, checks, fails),
                     d, to_process, dir, config, checks, fails, stats,
                     Append(log, LogEntry(d, Head(to_process),
                                          SessionResult(d, Head(to_process), dir, config,
                                                        checks, fails))))

\* What run returns when one of its first calls returns Err.
RunErr(d, st, sessions) ==
    [state |-> st, d |-> d, outcome |-> "err", log |-> <<>>, stats |-> NoStats,
     to_process |-> <<>>, sessions |-> sessions, filtered |-> FALSE]

\* run once the sessions are discovered and filtered.
RunFiltered(st, sessions, to_process, done) ==
    [state |-> st, d |-> done.d, outcome |-> done.outcome, log |-> done.log,
     stats |-> done.stats, to_process |-> to_process, sessions |-> sessions,
     filtered |-> TRUE]

\* run from Database::open on; opened is what open returned.
RunOpened(opened, sessions, config, dir, checks, early, fails) ==
    LET Needs(s) == NeedsProcessing(opened.d, s, config.force_reprocess)
        to_process == SelectSeq(sessions, Needs)
        stats == [NoStats EXCEPT !.skipped = Len(sessions) - Len(to_process)]
    IN  IF ~opened.ok \/ early = "discover" THEN RunErr(opened.d, opened.state, <<>>)
        ELSE IF early = "query" /\ ~config.force_reprocess /\ sessions # <<>>
        THEN RunErr(opened.d, opened.state, sessions)
        ELSE RunFiltered(opened.state, sessions, to_process,
                         ProcessAll(opened.d, to_process, dir, config, checks, fails,
                                    stats, <<>>))

\* embed::run: [d, state, outcome, stats, sessions, to_process, filtered,
\* log].  early names the call that fails before the sessions are
\* processed: OpenRouterClient::from_env, Database::open, discover_sessions,
\* or the first is_session_processed.
run(d, st, dir, listing, config, checks, early, fails) ==
    IF early = "from_env" THEN RunErr(d, st, <<>>)
    ELSE RunOpened(open(d, st, IF early = "open" THEN "connection" ELSE "none"),
                   discover_sessions(dir, listing), config, dir, checks, early, fails)

EarlyFailures == {"none", "from_env", "open", "discover", "query"}

\* The configurations: one turn per chunk, forced or not; chunk_size 0; the
\* largest chunk_size and overlap.
EmbedConfigs ==
    {[chunk_size |-> 1, overlap |-> 0, force_reprocess |-> FALSE],
     [chunk_size |-> 1, overlap |-> 0, force_reprocess |-> TRUE],
     [chunk_size |-> 0, overlap |-> 0, force_reprocess |-> FALSE],
     [chunk_size |-> UsizeMax, overlap |-> UsizeMax, force_reprocess |-> FALSE]}

\* The directories: s1 has two turns and s2, if it is there, one.
Dirs(mtimes) ==
    {[sid \in Sessions |-> IF sid = "s1" THEN [present |-> TRUE, size |-> 1, mtime |-> m,
                                                nturns |-> 2]
                           ELSE f] :
        m \in mtimes, f \in {NoFile, [present |-> TRUE, size |-> 1, mtime |-> 1, nturns |-> 1]}}

Listings(dir) == Perms({sid \in Sessions : dir[sid].present})

\* The runs before this one, oldest first: of each its log and whether it
\* got as far as processing.
History == IF op.name = "run" THEN Append(op.history, [log |-> op.log, filtered |-> op.filtered])
           ELSE <<>>

\* A run that returned res.
RunReturns(res, dir, config) ==
    /\ nops < MaxOps
    /\ nops' = nops + 1
    /\ SetDb(res.d)
    /\ state' = res.state
    /\ op' = [name |-> "run", config |-> config, outcome |-> res.outcome, log |-> res.log,
              dir |-> dir, stats |-> res.stats, to_process |-> res.to_process,
              sessions |-> res.sessions, filtered |-> res.filtered,
              history |-> History]
    /\ committed' = [sid \in Sessions |->
                       IF \E i \in 1..Len(res.log) :
                             res.log[i].session_id = sid /\ res.log[i].outcome = "ok"
                       THEN [present |-> TRUE, file_size |-> dir[sid].size,
                             file_mtime |-> dir[sid].mtime]
                       ELSE committed[sid]]
    /\ UNCHANGED <<handle, tx>>

Run(dir, listing, config, checks, early, fails) ==
    RunReturns(run(Db, state, dir, listing, config, checks, early, fails), dir, config)

\* The first run meets an empty store; the last one finds the files of the
\* run before it.  The two builds differ only where a sum overflows.
NextRun ==
    \/ /\ nops < MaxOps - 1
       /\ \E dir \in Dirs(IF nops = 0 THEN {1} ELSE FileMtimes), config \in EmbedConfigs,
             early \in EarlyFailures, fails \in [Sessions -> RunFailures] :
             /\ \A sid \in Sessions : ~dir[sid].present => fails[sid] = "none"
             /\ early # "none" =>
                   (fails = [sid \in Sessions |-> "none"] /\ config.chunk_size = 1)
             /\ \E listing \in Listings(dir),
                   checks \in IF config.chunk_size = UsizeMax THEN BOOLEAN ELSE {TRUE} :
                   Run(dir, listing, config, checks, early, fails)
    \/ /\ nops = MaxOps - 1
       /\ op.name = "run"
       /\ \E listing \in Listings(op.dir) :
             Run(op.dir, listing, [chunk_size |-> 1, overlap |-> 0, force_reprocess |-> FALSE],
                 TRUE, "none", [sid \in Sessions |-> "none"])

SpecRun == InitStore /\ [][NextRun]_vars

(***************************************************************************)
(* Claims about the store.                                                 *)
(***************************************************************************)
RowsOf(rows, sid) == {r \in rows : r.session_id = sid}

\* The rows of a set in ascending rowid order.
RECURSIVE ByRowid(_)
ByRowid(rows) ==
    IF rows = {} THEN <<>>
    ELSE LET first == CHOOSE r \in rows : \A q \in rows : r.rowid <= q.rowid
         IN  <<first>> \o ByRowid(rows \ {first})

\* The index holds exactly the (rowid, text) pairs of the table.
IndexInLockstep(rows, index) ==
    index = {[rowid |-> r.rowid, text |-> r.text] : r \in rows}

\* C3: a store_chunks call that fails at any statement (opening the
\* transaction, the DELETE, an INSERT of the batch, the marker, the COMMIT)
\* leaves the three tables exactly as they were before the call.
C3_StoreAtomicOnFailure ==
    [][(op'.name = "store_chunks" /\ ~op'.ok)
          => UNCHANGED <<chunks, chunks_fts, sessions_processed>>]_vars

\* A call with two chunks failed at its second INSERT or later, and the
\* conversation still has its old fragments, marker and index entries.
C3_Witness ==
    /\ op.name = "store_chunks" /\ ~op.ok
    /\ op.n = 2 /\ op.failAt >= 3 /\ op.failAt <= 5
    /\ RowsOf(chunks, op.session_id) # {}
    /\ sessions_processed[op.session_id].present
    /\ IndexInLockstep(chunks, chunks_fts)

\* C4: after a store_chunks call that returned Ok and whose chunks all
\* carry the call's session_id, the conversation's rows are exactly the
\* supplied chunks, in order, with their embeddings; its marker is the
\* supplied fingerprint; rows and markers of other conversations are as
\* before.
C4_StoreReplaces ==
    [][(/\ op'.name = "store_chunks" /\ op'.ok
        /\ \A i \in 1..Len(op'.pairs) : op'.pairs[i].chunk.session_id = op'.session_id)
          => LET sid == op'.session_id
                 new == ByRowid(RowsOf(chunks', sid))
             IN  /\ Len(new) = Len(op'.pairs)
                 /\ \A i \in 1..Len(new) :
                       /\ new[i].text = op'.pairs[i].chunk.text
                       /\ new[i].turn_start = op'.pairs[i].chunk.turn_start
                       /\ new[i].turn_end = op'.pairs[i].chunk.turn_end
                       /\ bytes_to_embedding(new[i].embedding) = op'.pairs[i].embedding
                 /\ sessions_processed'[sid].present
                 /\ sessions_processed'[sid].file_size = op'.file_size
                 /\ sessions_processed'[sid].file_mtime = op'.file_mtime
                 /\ \A o \in Sessions \ {sid} :
                       /\ RowsOf(chunks', o) = RowsOf(chunks, o)
                       /\ sessions_processed'[o] = sessions_processed[o]]_vars

\* The third call replaced a conversation's fragments while another
\* conversation, stored in between, kept its own.
C4_Witness ==
    /\ op.name = "store_chunks" /\ op.ok /\ nops >= 3
    /\ Len(op.pairs) = 2
    /\ \A i \in 1..2 : op.pairs[i].chunk.session_id = op.session_id
    /\ \E o \in Sessions \ {op.session_id} :
          /\ RowsOf(chunks, o) # {}
          /\ \A r \in RowsOf(chunks, op.session_id), q \in RowsOf(chunks, o) :
                r.rowid > q.rowid
    /\ ~\E r \in chunks : r.rowid = 1

\* C5: whatever store_chunks calls ran, is_session_processed(id, size, mtime)
\* is true exactly when the table holds a marker for id with that size and
\* that mtime, which is exactly when the last successful store_chunks of id
\* was given that size and that mtime.
C5_ProcessedIffExactMatch ==
    \A sid \in Sessions, size \in FileSizes, mtime \in FileMtimes :
        LET r == is_session_processed(Db, sid, size, mtime)
            m == sessions_processed[sid]
            h == committed[sid]
        IN  /\ r = (m.present /\ m.file_size = size /\ m.file_mtime = mtime)
            /\ r = (h.present /\ h.file_size = size /\ h.file_mtime = mtime)

\* is_session_processed answered false for a marker whose size matches and
\* whose mtime does not.
C5_Witness ==
    /\ op.name = "is_session_processed" /\ ~op.result
    /\ sessions_processed[op.session_id].present
    /\ sessions_processed[op.session_id].file_size = op.file_size
    /\ sessions_processed[op.session_id].file_mtime # op.file_mtime

(***************************************************************************)
(* Claims about searching.                                                 *)
(***************************************************************************)
IsSearch == op.name = "search" /\ op.ok
IsHybrid == IsSearch /\ op.path = "hybrid"

RowidsOf(ranking) == {ranking[i].rowid : i \in 1..Len(ranking)}

\* The similarity of a stored row to the query of the search in op.
SimToQuery(r) == cosine_similarity(EmbedText(op.query), bytes_to_embedding(r.embedding))

\* C1: a search returns at most top_k results, on the hybrid path and on
\* the semantic-only path.
C1_AtMostTopK == IsSearch => Len(op.results) <= op.top_k

\* A hybrid search fused more keys than top_k and returned top_k >= 1 of them.
C1_Witness ==
    /\ IsHybrid /\ op.top_k >= 1
    /\ Len(op.fused) > op.top_k
    /\ Len(op.results) = op.top_k

\* C2: every result has a similarity >= threshold, or it comes from the
\* lexical ranking alone: its key is in the lexical ranking and not in the
\* semantic one, its similarity to the query is below the threshold, and it
\* is reported with similarity 0.  Semantic-only results are all >= threshold.
C2_ThresholdOrLexical ==
    IsSearch =>
        \A i \in 1..Len(op.results) :
            LET r == op.results[i]
            IN  \/ /\ r.similarity >= op.threshold
                   /\ r.similarity = cosine_similarity(EmbedText(op.query), r.chunk.embedding)
                \/ /\ op.path = "hybrid"
                   /\ r.chunk.rowid \in RowidsOf(op.lexical)
                   /\ r.chunk.rowid \notin RowidsOf(op.semantic)
                   /\ cosine_similarity(EmbedText(op.query), r.chunk.embedding) < op.threshold
                   /\ r.similarity = 0

\* A hybrid search returned one result above the threshold and one that the
\* threshold filter had discarded.
C2_Witness ==
    /\ IsHybrid
    /\ \E i, j \in 1..Len(op.results) :
          /\ op.results[i].similarity >= op.threshold
          /\ op.results[j].similarity = 0
          /\ op.results[j].chunk.rowid \notin RowidsOf(op.semantic)
          /\ cosine_similarity(EmbedText(op.query), op.results[j].chunk.embedding) > 0

\* C6: the output of sanitize_fts_query is a sequence of strings, one per
\* white-space-delimited input token that has a character other than the
\* quote, each the token without its quotes between two quotes, single
\* spaces between them; no lexeme of it is a bareword, an operator or an
\* unterminated string, and the engine accepts it unless it is empty.
C6_SanitizedIsQuotedTokens ==
    op.name = "sanitize_fts_query" =>
        LET out == op.safe_query
            lx == Fts5Lex(out, "out", <<>>)
            HasText(t) == \E i \in 1..Len(t) : t[i] # Quote
            toks == SelectSeq(split_whitespace(op.query), HasText)
        IN  /\ Len(lx) = Len(toks)
            /\ \A i \in 1..Len(lx) :
                  /\ lx[i].kind = "string"
                  /\ lx[i].text = SelectSeq(toks[i], NotQuote)
            /\ Len(SelectSeq(out, IsQuote)) = 2 * Len(toks)
            /\ Len(out) = SumSeq([i \in 1..Len(toks) |-> Len(SelectSeq(toks[i], NotQuote)) + 2])
                            + (IF toks = <<>> THEN 0 ELSE Len(toks) - 1)
            /\ \A i \in 1..Len(out) : out[i] \in WhiteSpace => out[i] = " "
            /\ out # <<>> => Fts5Accepts(out)

\* The input OR "a (an operator and an unbalanced quote) became "OR" "a".
C6_Witness ==
    /\ op.name = "sanitize_fts_query"
    /\ op.query = <<"O", "R", " ", Quote, "a">>
    /\ op.safe_query = <<Quote, "O", "R", Quote, " ", Quote, "a", Quote>>

\* C7: bm25_search returns Ok with at most limit rows in non-decreasing rank,
\* each a row of the index that matches; and it returns no row, without
\* querying the index, when the query has only white space and quotes.
C7_Bm25LimitedAscending ==
    op.name = "bm25_search" =>
        /\ op.ok
        /\ Len(op.rows) <= op.limit
        /\ \A i \in 1..Len(op.rows), j \in 1..Len(op.rows) :
              i < j => op.rows[i].rank <= op.rows[j].rank /\ op.rows[i].rowid # op.rows[j].rowid
        /\ \A i \in 1..Len(op.rows) : \E e \in chunks_fts : e.rowid = op.rows[i].rowid
        /\ (\A k \in 1..Len(op.query) : op.query[k] \in WhiteSpace \cup {Quote})
              => op.rows = <<>> /\ ~op.queried
        /\ (\E k \in 1..Len(op.query) : op.query[k] \notin WhiteSpace \cup {Quote})
              => op.queried

\* Three rows match, the limit is two, and the two returned differ in rank.
C7_Witness ==
    /\ op.name = "bm25_search" /\ op.limit = 2 /\ op.query = <<"a">>
    /\ Cardinality({e \in chunks_fts : Fts5Matches(<< <<"a">> >>, e.text)}) >= 3
    /\ Len(op.rows) = 2
    /\ op.rows[1].rank < op.rows[2].rank

\* C8 as claimed, for a search that asks for at least one result: with an
\* empty merged pool a hybrid search returns a non-empty result unless the
\* store has no fragment.
C8_Original_NonEmptyOnFallback ==
    (IsHybrid /\ op.lexical = <<>> /\ op.top_k >= 1)
        => (op.results = <<>> <=> chunks = {})

\* C8 amended: with an empty merged pool a hybrid search loads the whole
\* store as its candidates, and its result is non-empty exactly when
\* top_k >= 1 and some fragment has a similarity >= threshold; with no
\* fragment in the store it is empty.
C8_FallbackScansAll ==
    (IsHybrid /\ op.lexical = <<>>) =>
        /\ op.calls[Len(op.calls)].fn = "load_all_chunks"
        /\ op.calls[Len(op.calls)].queried
        /\ op.ncandidates = Cardinality(chunks)
        /\ op.results # <<>>
              <=> (op.top_k >= 1 /\ \E r \in chunks : SimToQuery(r) >= op.threshold)
        /\ chunks = {} => op.results = <<>>

\* No row matched lexically, and the full scan returned rows.
C8_Witness ==
    /\ IsHybrid /\ op.lexical = <<>>
    /\ \E i \in 1..Len(op.calls) : op.calls[i].fn = "bm25_search" /\ op.calls[i].queried
    /\ Cardinality(chunks) >= 2
    /\ op.results # <<>>

\* C9: a hybrid search with a non-empty pool makes one load, a
\* load_chunks_by_rowids of exactly the pool's keys, which returns no row
\* outside the pool; load_all_chunks is called only with an empty pool or
\* in semantic-only mode; load_chunks_by_rowids of no key returns no row
\* without querying.
C9_LoadsOnlyPool ==
    /\ load_chunks_by_rowids(Db, <<>>) = [chunks |-> <<>>, queried |-> FALSE]
    /\ IsSearch =>
          LET loads == SelectSeq(op.calls, LAMBDA c : c.fn # "bm25_search")
          IN  /\ Len(loads) = 1
              /\ loads[1].fn = "load_all_chunks"
                    => (op.semantic_only \/ op.lexical = <<>>)
              /\ (IsHybrid /\ op.lexical # <<>>) =>
                    /\ loads[1].fn = "load_chunks_by_rowids"
                    /\ loads[1].rowids = [i \in 1..Len(op.lexical) |-> op.lexical[i].rowid]
                    /\ op.ncandidates <= Len(op.lexical)
                    /\ \A i \in 1..Len(op.results) :
                          op.results[i].chunk.rowid \in RowidsOf(op.lexical)

\* The pool of a hybrid search left out a row of the store, and the search
\* loaded the pool only.
C9_Witness ==
    /\ IsHybrid /\ op.lexical # <<>>
    /\ Cardinality(chunks) > Len(op.lexical)
    /\ op.ncandidates = Len(op.lexical)
    /\ op.calls[Len(op.calls)].fn = "load_chunks_by_rowids"

\* C10: in a hybrid search with candidates, the semantic ranking holds the
\* candidates at or above the threshold by descending similarity, and the
\* fused list holds each key of the semantic or the lexical ranking once,
\* with the score 1/(60 + semantic rank) + 1/(60 + lexical rank), ranks
\* counted from 1 and 10000 for a key absent from a ranking.
C10_FusedScores ==
    (IsHybrid /\ op.ncandidates > 0) =>
        LET keys == RowidsOf(op.semantic) \cup RowidsOf(op.lexical)
            Pos(ranking, k) ==
                IF k \in RowidsOf(ranking)
                THEN Cardinality({i \in 1..Len(ranking) :
                        \E j \in i..Len(ranking) : ranking[j].rowid = k})
                ELSE 10000
            pool == IF op.lexical = <<>> THEN chunks
                    ELSE {r \in chunks : r.rowid \in RowidsOf(op.lexical)}
        IN  /\ RowidsOf(op.semantic) = {r.rowid : r \in {q \in pool : SimToQuery(q) >= op.threshold}}
            /\ \A i \in 1..Len(op.semantic), j \in 1..Len(op.semantic) :
                  i < j => op.semantic[i].sim >= op.semantic[j].sim
            /\ RowidsOf(op.fused) = keys
            /\ Len(op.fused) = Cardinality(keys)
            /\ \A i \in 1..Len(op.fused) :
                  op.fused[i].score =
                      (1000000000 \div (60 + Pos(op.semantic, op.fused[i].rowid)))
                        + (1000000000 \div (60 + Pos(op.lexical, op.fused[i].rowid)))

\* The fused list has a key ranked in both rankings and a key that is in the
\* lexical ranking only.
C10_Witness ==
    /\ IsHybrid /\ op.ncandidates > 0
    /\ \E i, j \in 1..Len(op.fused) :
          /\ op.fused[i].rowid \in RowidsOf(op.semantic) \cap RowidsOf(op.lexical)
          /\ op.fused[j].rowid \in RowidsOf(op.lexical) \ RowidsOf(op.semantic)
          /\ op.fused[i].score > op.fused[j].score

\* The store of the fusion example: four fragments "a" and then one
\* fragment "a b", stored by one call.
ExampleDb ==
    TxInsertAll([chunks |-> {}, fts |-> {}, processed |-> [s \in Sessions |-> NoMarker]],
                PairsOf("s1", <<<<"a">>, <<"a">>, <<"a">>, <<"a">>, <<"a", " ", "b">>>>))

\* The example: the query "b" with the variant "a" and threshold 0.7 on
\* ExampleDb.  The fragment "a b" is first of the semantic ranking and fifth
\* of the lexical one; every fragment "a" is absent from the semantic
\* ranking, and one of them is first lexically.  Whatever order the ties
\* take, "a b" is the first result and a fragment "a" the second, with 0.
FusionExample ==
    \A rec \in hybrid_search_expanded(ExampleDb, EmbedText(<<"b">>), <<<<"b">>, <<"a">>>>,
                  [top_k |-> 2, threshold |-> 70, semantic_only |-> FALSE, expand |-> TRUE]) :
        /\ Len(rec.lexical) = 5 /\ Len(rec.semantic) = 1 /\ Len(rec.results) = 2
        /\ rec.results[1].chunk.text = <<"a", " ", "b">>
        /\ rec.semantic[1].rowid = rec.results[1].chunk.rowid
        /\ rec.lexical[5].rowid = rec.results[1].chunk.rowid
        /\ rec.results[1].similarity = 80
        /\ rec.results[2].chunk.rowid = rec.lexical[1].rowid
        /\ rec.results[2].chunk.text = <<"a">>
        /\ rec.results[2].similarity = 0

\* C11: the results of a hybrid search are the first top_k keys of the fused
\* list, which is in non-increasing order of fused score, so no key left out
\* has a higher score than a key returned; each result carries its cosine
\* similarity to the original query if its key is in the semantic ranking
\* and 0 otherwise, and the results are not ordered by it; a fragment ranked
\* first semantically and fifth lexically comes above a fragment ranked first
\* lexically and absent semantically.
C11_TopKByFusedScore ==
    /\ FusionExample
    /\ RrfScore(1, 5) > RrfScore(FALLBACK_RANK, 1)
    /\ (IsHybrid /\ op.ncandidates > 0) =>
          LET n == IF op.top_k < Len(op.fused) THEN op.top_k ELSE Len(op.fused)
          IN  /\ \A i \in 1..Len(op.fused), j \in 1..Len(op.fused) :
                    i < j => op.fused[i].score >= op.fused[j].score
              /\ Len(op.results) = n
              /\ \A i \in 1..n :
                    LET r == op.results[i]
                    IN  /\ r.chunk.rowid = op.fused[i].rowid
                        /\ \E q \in chunks : StoredChunk(q) = r.chunk
                        /\ r.similarity =
                              IF r.chunk.rowid \in RowidsOf(op.semantic)
                              THEN cosine_similarity(EmbedText(op.query), r.chunk.embedding)
                              ELSE 0

\* Two results in the order of their fused scores and against the order of
\* their similarities, and a third key below them that top_k left out.
C11_Witness ==
    /\ IsHybrid /\ Len(op.results) = 2 /\ Len(op.fused) = 3
    /\ op.results[1].similarity < op.results[2].similarity
    /\ op.results[1].similarity > 0
    /\ op.fused[2].score > op.fused[3].score

(***************************************************************************)
(* Claims about resolving the query.                                       *)
(***************************************************************************)
\* The calls of a search to the lexical index.
Bm25Calls == SelectSeq(op.calls, LAMBDA c : c.fn = "bm25_search")

\* C12 as claimed: a search takes the pure-semantic path only when the
\* configuration the caller passed has semantic_only = true.
C12_Original_OnlyByConfig ==
    (IsSearch /\ op.path = "semantic_only") => op.config.semantic_only

\* C12 amended: a search takes the pure-semantic path (no call to the
\* lexical index, one load of all fragments) exactly when the caller's
\* configuration has semantic_only = true or the environment variable
\* PROFUNDO_SEMANTIC_ONLY is "1"; nothing else selects it: otherwise the
\* search is hybrid and asks the lexical index once per query string, also
\* when the pool comes back empty.
C12_BySemanticOnlyOrEnv ==
    IsSearch =>
        /\ op.path = "semantic_only" <=> (op.config.semantic_only \/ op.env = "1")
        /\ op.path = "semantic_only" =>
              /\ Bm25Calls = <<>>
              /\ Len(op.calls) = 1 /\ op.calls[1].fn = "load_all_chunks"
        /\ op.path # "semantic_only" =>
              /\ op.path = "hybrid"
              /\ Len(Bm25Calls) = Len(op.queries)

\* The caller asked for a hybrid search, the variable was "1", and the
\* search scanned the store without asking the lexical index.
C12_Witness ==
    /\ IsSearch /\ ~op.config.semantic_only /\ op.env = "1"
    /\ op.path = "semantic_only"
    /\ Bm25Calls = <<>>
    /\ op.results # <<>>

\* v is the line l without the white space at its two ends.
IsTrimOf(v, l) ==
    /\ v # <<>> /\ v[1] \notin WhiteSpace /\ v[Len(v)] \notin WhiteSpace
    /\ \E j \in 0..(Len(l) - Len(v)) :
          /\ SubSeq(l, j + 1, j + Len(v)) = v
          /\ \A k \in 1..Len(l) : (k <= j \/ k > j + Len(v)) => l[k] \in WhiteSpace

\* C13: the query strings of a search that got as far as resolving them are
\* the original query alone when expansion is disabled (and no completion
\* is asked for); with expansion they are the original query and then the
\* first lines of the completion that are not blank, at most two, each
\* without the white space around it; when the completion call fails they
\* are the original query alone and the search succeeds or fails as it
\* would without expansion.
C13_QuerySet ==
    (op.name = "search" /\ op.fails \notin {"from_env", "open"}) =>
        /\ ~op.config.expand => (op.queries = <<op.query>> /\ op.chat = NoChat)
        /\ op.config.expand =>
              /\ op.chat.called
              /\ op.queries[1] = op.query
              /\ Len(op.queries) <= 3
              /\ op.chat.ok =>
                    LET NonBlank(l) == \E k \in 1..Len(l) : l[k] \notin WhiteSpace
                        nb == SelectSeq(lines(op.chat.response), NonBlank)
                    IN  /\ Len(op.queries) = 1 + (IF Len(nb) < 2 THEN Len(nb) ELSE 2)
                        /\ \A i \in 2..Len(op.queries) : IsTrimOf(op.queries[i], nb[i - 1])
              /\ ~op.chat.ok => op.queries = <<op.query>>
        /\ op.ok <=> op.fails = "none"

\* The completion call failed and the search returned the results of the
\* original query alone.
C13_Witness ==
    /\ op.name = "search" /\ op.config.expand
    /\ op.chat.called /\ ~op.chat.ok
    /\ op.ok /\ op.queries = <<op.query>>
    /\ Len(Bm25Calls) = 1
    /\ op.results # <<>>

\* C14: a search whose embedding call fails returns Err: it has no result
\* and has read nothing from the store, whatever the lexical index holds;
\* in a search that returns Ok every similarity of the semantic ranking and
\* of the results is the cosine similarity of the fragment to the embedding
\* of the original query (0 for a result outside the semantic ranking),
\* with or without expansion variants.
C14_EmbedFailureAndQueryVector ==
    /\ (op.name = "search" /\ op.fails = "embed") =>
          (~op.ok /\ op.results = <<>> /\ op.calls = <<>>)
    /\ IsSearch =>
          /\ \A i \in 1..Len(op.semantic) :
                \E r \in chunks :
                   /\ r.rowid = op.semantic[i].rowid
                   /\ op.semantic[i].sim = SimToQuery(r)
          /\ \A i \in 1..Len(op.results) :
                LET r == op.results[i]
                    sim == cosine_similarity(EmbedText(op.query), r.chunk.embedding)
                IN  \/ r.similarity = sim /\ sim >= op.threshold
                    \/ r.similarity = 0 /\ sim < op.threshold

\* The embedding call failed after the query was expanded, and the lexical
\* index holds a fragment that matches the query.
C14_Witness ==
    /\ op.name = "search" /\ op.fails = "embed" /\ ~op.ok
    /\ Len(op.queries) = 3
    /\ \E e \in chunks_fts : Fts5Matches(<< <<"a">> >>, e.text)
    /\ op.results = <<>>


(***************************************************************************)
(* Claims about display_with_context, checked under SpecDisplay.           *)
(***************************************************************************)
IsDisplay == op.name = "display_with_context"

SessionLoaded == op.session.source \in {"cache", "file"}

\* The turns with index in [lo, hi), in order, each marked as a match iff
\* its index is in [turn_start, turn_end).
MarkedWindow(lo, hi, turn_start, turn_end) ==
    [j \in 1..(hi - lo) |->
        [turn_idx |-> lo + j - 1,
         marker |-> IF turn_start <= lo + j - 1 /\ lo + j - 1 < turn_end
                    THEN "match" ELSE "context"]]

\* A turn range [turn_start, turn_end) of the loaded conversation.
RangeInConversation ==
    /\ SessionLoaded
    /\ 0 <= op.turn_start
    /\ op.turn_start < op.turn_end
    /\ op.turn_end <= op.session.len

\* C15, as stated: for a result with turn range [start, end) in a
\* conversation of len turns and any context width c, display_with_context
\* shows exactly the turns with index in [max(0, start - c), min(len, end + c)),
\* in order, a turn marked as a match iff its index is in [start, end).  The
\* code adds end + c in usize arithmetic, and the sum can exceed usize.
C15_Original_ShowsWindow ==
    (IsDisplay /\ RangeInConversation) =>
        /\ op.outcome = "turns"
        /\ op.shown = MarkedWindow(saturating_sub(op.turn_start, op.context),
                                   Min(op.session.len, op.turn_end + op.context),
                                   op.turn_start, op.turn_end)

\* The state C15 fails in: the range [2, 3) of a conversation of 10 turns,
\* the context width the largest usize, in a build without overflow checks:
\* the turns 0 and 1 are shown and the matched turn 2 is not.
C15_Failure ==
    /\ IsDisplay
    /\ op.turn_start = 2 /\ op.turn_end = 3 /\ op.session.len = 10
    /\ op.context = UsizeMax
    /\ op.outcome = "turns"
    /\ Len(op.shown) = 2
    /\ \A j \in 1..2 : op.shown[j].marker = "context"

\* What the code does where the sum does not overflow: the window of C15,
\* with the example of the claim (c = 1, [2, 3), len = 10: the turns 1..3,
\* turn 2 the only match).
C15_WindowWithoutOverflow ==
    (IsDisplay /\ RangeInConversation /\ op.turn_end + op.context <= UsizeMax) =>
        /\ op.outcome = "turns"
        /\ op.shown = MarkedWindow(saturating_sub(op.turn_start, op.context),
                                   Min(op.session.len, op.turn_end + op.context),
                                   op.turn_start, op.turn_end)
        /\ (op.context = 1 /\ op.turn_start = 2 /\ op.turn_end = 3 /\ op.session.len = 10) =>
              op.shown = << [turn_idx |-> 1, marker |-> "context"],
                            [turn_idx |-> 2, marker |-> "match"],
                            [turn_idx |-> 3, marker |-> "context"] >>

\* When display_with_context has to fall back, as C16 lists the cases: the
\* conversation cannot be located or parsed, a turn index is negative, the
\* range is inverted, its start or its end is beyond the loaded turns, or
\* the window is empty.
MustFallBack ==
    \/ ~SessionLoaded
    \/ op.turn_start < 0 \/ op.turn_end < 0
    \/ op.turn_start > op.turn_end
    \/ op.turn_start >= op.session.len
    \/ op.turn_end > op.session.len
    \/ saturating_sub(op.turn_start, op.context)
          >= Min(op.session.len, op.turn_end + op.context)

\* C16, as stated: for every stored turn range and every conversation
\* state, display_with_context never panics, and where it has to fall back
\* it shows the stored fragment with a warning.  The code indexes
\* turns[start..end] without comparing start with end.
C16_Original_NeverPanicsAndWarns ==
    IsDisplay =>
        /\ op.outcome # "panic"
        /\ MustFallBack => (op.outcome = "chunk" /\ op.warning # "none")

\* The state C16 fails in: the inverted range turn_start = 3, turn_end = 1
\* of a conversation of 4 turns, no context: turns[3..1] panics.
C16_Failure ==
    /\ IsDisplay
    /\ op.turn_start = 3 /\ op.turn_end = 1 /\ op.context = 0
    /\ op.session = [source |-> "file", len |-> 4]
    /\ op.outcome = "panic"

\* What the code does guard: a negative index, a session that is missing or
\* cannot be read, and a start beyond the loaded turns each show the stored
\* fragment with a warning.
C16_GuardedCases ==
    (IsDisplay /\ (~SessionLoaded \/ op.turn_start < 0 \/ op.turn_end < 0
                      \/ op.turn_start >= op.session.len)) =>
        (op.outcome = "chunk" /\ op.warning # "none")


(***************************************************************************)
(* Claims about decoding, checked under SpecLoad.                          *)
(***************************************************************************)
IsLoad == op.name \in {"load_all_chunks", "load_chunks_by_rowids"}

\* The rows a load was asked for.
AskedRows ==
    IF op.name = "load_all_chunks" THEN chunks
    ELSE {r \in chunks : r.rowid \in Range(op.rowids)}

\* The byte of a blob that is a multiple of 256^3 in a little-endian value:
\* its sign bit is the sign of the value.
SignedByte(b) == IF b >= 128 THEN b - 256 ELSE b

\* C17: decoding a stored blob of any byte length does not fail: a load
\* returns every row it was asked for, and the embedding of a row has
\* floor(len / 4) values, the i-th the little-endian value of the bytes
\* 4i-3..4i of the blob; the bytes after the last complete group of four
\* are ignored.
C17_DecodesAlignedPrefix ==
    IsLoad =>
        /\ {c.rowid : c \in Range(op.chunks)} = {r.rowid : r \in AskedRows}
        /\ Len(op.chunks) = Cardinality(AskedRows)
        /\ \A c \in Range(op.chunks) : \A r \in chunks :
              r.rowid = c.rowid =>
                 /\ Len(c.embedding) = Len(r.embedding) \div 4
                 /\ \A i \in 1..Len(c.embedding) :
                       c.embedding[i] = r.embedding[4 * i - 3]
                                          + 256 * r.embedding[4 * i - 2]
                                          + 65536 * r.embedding[4 * i - 1]
                                          + 16777216 * SignedByte(r.embedding[4 * i])

\* A blob of five bytes was loaded: one value, the fifth byte ignored.
C17_Witness ==
    /\ IsLoad
    /\ \E c \in Range(op.chunks) : \E r \in chunks :
          /\ r.rowid = c.rowid
          /\ Len(r.embedding) = 5
          /\ r.embedding[4] = 255
          /\ Len(c.embedding) = 1
          /\ c.embedding[1] < 0


(***************************************************************************)
(* Claims about the index, checked under SpecOpen.                         *)
(***************************************************************************)
IndexBuilt == "chunks_fts_built" \in state

\* C18: once a Database::open has returned Ok (the process holds a
\* Database, or the key chunks_fts_built is in state), after every further
\* open and store_chunks call, successful or failed, the index holds
\* exactly the (rowid, text) pairs of the rows of chunks; and an open that
\* finds the key does not rebuild the index.
C18_IndexInLockstep ==
    /\ (handle \/ IndexBuilt) => IndexInLockstep(chunks, chunks_fts)
    /\ (op.name \in {"open", "store_chunks"} /\ op.ok)
          => IndexInLockstep(chunks, chunks_fts)
    /\ (op.name = "open" /\ op.built_before) => ~op.rebuilt

\* A store that predates the index was opened and rebuilt, a store_chunks
\* call added rows, and the store was opened again without a rebuild: the
\* old rows and the new rows are all in the index.
C18_Witness ==
    /\ op.name = "open" /\ op.ok /\ op.built_before /\ ~op.rebuilt
    /\ nops = 3
    /\ \E r \in chunks : r.session_id = "s1"
    /\ \E r \in chunks : r.session_id = "s2"
    /\ Cardinality(chunks_fts) = Cardinality(chunks)


(***************************************************************************)
(* Claims about reads during a transaction, checked under SpecTx.          *)
(***************************************************************************)
\* The fragments of a set of rows that belong to a conversation, as a load
\* returns them.
FragmentsOf(rows, session_id) ==
    {StoredChunk(r) : r \in {q \in rows : q.session_id = session_id}}

\* The database once the open transaction has committed.
AfterCommit ==
    TxAfter(Db, tx.session_id, tx.file_size, tx.file_mtime, tx.pairs, Len(tx.pairs) + 2)

\* C19: a read that runs while a store_chunks call on a conversation is in
\* progress returns, for that conversation, the complete set of its
\* fragments before the call or the complete set after it (of the rowids
\* asked for, or of the entries that match the query), and every fragment
\* it returns is a fragment of the database before the call or of the
\* database after it.
C19_ReadsSeeOldOrNew ==
    [][(tx.active /\ tx' = tx /\ op' # op /\ op'.name \in ReadNames /\ op'.ok) =>
          LET sid == tx.session_id
              old == Db
              new == AfterCommit
          IN  /\ op'.name \in {"load_all_chunks", "load_chunks_by_rowids"} =>
                    LET asked == IF op'.name = "load_all_chunks"
                                 THEN {r.rowid : r \in old.chunks \cup new.chunks}
                                 ELSE Range(op'.rowids)
                        got == {c \in Range(op'.chunks) : c.session_id = sid}
                        Asked(fs) == {c \in fs : c.rowid \in asked}
                    IN  /\ \/ got = Asked(FragmentsOf(old.chunks, sid))
                           \/ got = Asked(FragmentsOf(new.chunks, sid))
                        /\ Range(op'.chunks) \subseteq
                              {StoredChunk(r) : r \in old.chunks \cup new.chunks}
              /\ op'.name = "bm25_search" =>
                    \/ \E res \in bm25_search(old, op'.query, op'.limit) : res.rows = op'.rows
                    \/ \E res \in bm25_search(new, op'.query, op'.limit) : res.rows = op'.rows
       ]_vars

\* A call that replaces the two fragments of a conversation by one has run
\* its DELETE and not yet its COMMIT, and a load during the call returned
\* the two old fragments.
C19_Witness ==
    /\ tx.active
    /\ tx.done >= 1
    /\ Len(tx.pairs) = 1
    /\ op.name = "load_all_chunks" /\ op.ok /\ op.during
    /\ Cardinality({c \in Range(op.chunks) : c.session_id = tx.session_id}) = 2


(***************************************************************************)
(* Claims about the stored turn ranges, checked under SpecEmbed.           *)
(***************************************************************************)
\* C20, as stated: after any sequence of embed runs with any chunk_size and
\* overlap, every fragment in the store has turn_start < turn_end.
\* store_chunks writes the two usize indices as i32.
C20_Original_StartBeforeEnd ==
    \A r \in chunks : r.turn_start < r.turn_end

\* The state C20 fails in: the chunk of the turns [I32Max, I32Max + 1) is
\* stored with turn_end = -(I32Max + 1).
C20_Failure ==
    /\ op.name = "process_session" /\ op.outcome = "ok"
    /\ \E r \in chunks : r.turn_start = I32Max /\ r.turn_end = 0 - (I32Max + 1)

\* Every chunk extract_text_chunks returns, for any number of turns, any
\* chunk_size and overlap and either build, has turn_start < turn_end <= the
\* number of turns.
ExtractedRangesValid ==
    \A n \in 0..MaxTurns, chunk_size \in 0..(MaxTurns + 1) \cup ChunkSizes,
       overlap \in 0..(MaxTurns + 1) \cup Overlaps, checks \in BOOLEAN :
       LET ex == extract_text_chunks("s1", TurnsOf(n), chunk_size, overlap, checks)
       IN  \A k \in 1..Len(ex.chunks) :
              /\ ex.chunks[k].turn_start < ex.chunks[k].turn_end
              /\ ex.chunks[k].turn_end <= n

\* What the code does ensure: the chunks extracted have turn_start <
\* turn_end, and a run that stores the fragments of a session of at most
\* I32Max turns stores them with 0 <= turn_start < turn_end.
C20_StartBeforeEndWithinI32 ==
    /\ ExtractedRangesValid
    /\ (op.name = "process_session" /\ op.outcome = "ok" /\ op.nturns <= I32Max) =>
          \A r \in chunks : r.session_id = op.session_id =>
             (0 <= r.turn_start /\ r.turn_start < r.turn_end)

(***************************************************************************)
(* The lexical pool of a hybrid search.                                    *)
(***************************************************************************)
IsHybridSearch == op.name = "hybrid_search_expanded"

\* The (key, rank) pairs that the bm25_search calls of the search returned.
ReturnedPairs == UNION {c.returned : c \in Range(Bm25Calls)}

\* Each returned key with the lowest rank it received.
LowestRanks == {e \in ReturnedPairs : \A f \in ReturnedPairs : f.rowid = e.rowid => e.rank <= f.rank}

\* The pool of the claim: one bm25_search call per query string, asked for
\* max(top_k * 40, 200) rows; the lexical ranking holds each returned key
\* once, with its lowest rank, in ascending rank.
PoolAsClaimed ==
    /\ Len(Bm25Calls) = Len(op.queries)
    /\ \A i \in 1..Len(Bm25Calls) :
          /\ Bm25Calls[i].query = op.queries[i]
          /\ Bm25Calls[i].limit = (IF op.top_k * PoolFactor > PoolFloor
                                   THEN op.top_k * PoolFactor ELSE PoolFloor)
    /\ Range(op.lexical) = LowestRanks
    /\ Len(op.lexical) = Cardinality(LowestRanks)
    /\ \A i \in 1..Len(op.lexical), j \in 1..Len(op.lexical) :
          i < j => op.lexical[i].rank <= op.lexical[j].rank

\* C21: a hybrid search asks the index for max(top_k * 40, 200) rows for each
\* query string, and its lexical ranking is the merged pool: each key that
\* any variant returned, once, with the lowest rank it received, in
\* ascending rank.
C21_Original_PoolAsClaimed == IsHybridSearch => PoolAsClaimed

\* top_k * 40 does not fit in usize: the search panicked, or it asked for the
\* floor of 200 rows where the claim asks for top_k * 40.
C21_Failure ==
    /\ IsHybridSearch
    /\ op.top_k * PoolFactor > UsizeMax
    /\ \/ op.panic /\ op.calls = <<>>
       \/ /\ ~op.panic
          /\ Bm25Calls # <<>>
          /\ Bm25Calls[1].limit = PoolFloor
          /\ Bm25Calls[1].limit < op.top_k * PoolFactor

\* Where top_k * 40 fits in usize the pool is the claimed one; two variants
\* returned the same key with different ranks and the lower one was kept.
C21_PoolWithoutOverflow ==
    (IsHybridSearch /\ op.top_k * PoolFactor <= UsizeMax) => PoolAsClaimed

C21_MergedTwoRanks ==
    /\ IsHybridSearch /\ ~op.panic
    /\ \E e \in ReturnedPairs, f \in ReturnedPairs : e.rowid = f.rowid /\ e.rank < f.rank
    /\ Len(op.lexical) >= 2

\* The last call of the search: the load of its candidates.
LoadCall == op.calls[Len(op.calls)]

FailedCalls == {i \in 1..Len(Bm25Calls) : ~Bm25Calls[i].ok}

\* C24: a hybrid search in which bm25_search returned an error for some
\* query strings still returns Ok: the failed calls add nothing to the pool,
\* the other strings' rows are merged as without the failure, and if no
\* call returned a row the candidates are loaded by the full scan.
C24_LexicalFailureTolerated ==
    (IsHybridSearch /\ FailedCalls # {} /\ ~op.faults.load) =>
        /\ op.ok /\ ~op.panic
        /\ Len(Bm25Calls) = Len(op.queries)
        /\ \A i \in FailedCalls : Bm25Calls[i].returned = {}
        /\ Range(op.lexical) = LowestRanks
        /\ LoadCall.fn = (IF LowestRanks = {} THEN "load_all_chunks" ELSE "load_chunks_by_rowids")
        /\ LowestRanks = {} =>
              /\ LoadCall.queried
              /\ op.ncandidates = Cardinality(chunks)
              /\ op.results # <<>>
                    <=> (op.top_k >= 1 /\ \E r \in chunks : SimToQuery(r) >= op.threshold)

\* The call for the first query string failed, the call for the second
\* returned rows, and the search returned results from that pool.
C24_Witness ==
    /\ IsHybridSearch /\ op.ok
    /\ Len(Bm25Calls) = 2
    /\ FailedCalls = {1}
    /\ Bm25Calls[2].returned # {}
    /\ op.lexical # <<>>
    /\ op.results # <<>>

\* What semantic_only_search returns for the corpus, the query vector, the
\* threshold and the top_k of the search: (rowid, similarity) in order.
SemanticOnlyResults ==
    LET corpus == load_all_chunks(Db).chunks
        found == IF corpus = <<>> THEN <<>>
                 ELSE semantic_only_search(corpus, EmbedText(op.query),
                                           [top_k |-> op.top_k, threshold |-> op.threshold])
    IN  [i \in 1..Len(found) |-> [rowid |-> found[i].chunk.rowid,
                                  similarity |-> found[i].similarity]]

C26_OnlyPoolReturned ==
    (IsHybridSearch /\ op.ok /\ op.lexical # <<>>) =>
        /\ op.ncandidates <= Len(op.lexical)
        /\ RowidsOf(op.semantic) \subseteq RowidsOf(op.lexical)
        /\ RowidsOf(op.fused) = RowidsOf(op.lexical)
        /\ \A i \in 1..Len(op.results) :
              /\ op.results[i].chunk.rowid \in RowidsOf(op.lexical)
              /\ RankIn(op.lexical, op.results[i].chunk.rowid) \in 1..Len(op.lexical)
              /\ RankIn(op.lexical, op.results[i].chunk.rowid) # FALLBACK_RANK

\* A fragment outside the pool is nearer to the query than every fragment
\* returned, and top_k left room for it.
C26_Witness ==
    /\ IsHybridSearch /\ op.ok /\ op.lexical # <<>>
    /\ op.results # <<>>
    /\ Len(op.results) < op.top_k
    /\ \E r \in chunks :
          /\ r.rowid \notin RowidsOf(op.lexical)
          /\ SimToQuery(r) >= op.threshold
          /\ \A i \in 1..Len(op.results) : SimToQuery(r) > op.results[i].similarity

(***************************************************************************)
(* A search beside a writer, checked under SpecRace.                       *)
(***************************************************************************)
\* The results of the search that carry a lexical rank.
LexicallyRanked ==
    {i \in 1..Len(op.results) :
        RankIn(op.lexical, op.results[i].chunk.rowid) # FALLBACK_RANK}

\* Result i is the fragment the lexical query matched under its row key.
IsMatchedFragment(i) ==
    \E m \in op.matched :
        /\ m.rowid = op.results[i].chunk.rowid
        /\ m.session_id = op.results[i].chunk.session_id
        /\ m.text = op.results[i].chunk.text

\* C27 as stated: when a store_chunks call commits between the lexical
\* query of a hybrid search and its candidate load, every returned fragment
\* with a lexical rank is the fragment whose text the lexical query matched.
C27_Original_KeysResolveToMatched ==
    (IsHybridSearch /\ op.between # <<>>) =>
        \A i \in LexicallyRanked : IsMatchedFragment(i)

\* The failure of C27: the query matched a fragment of text "a" under a row
\* key, the replacement of its session committed before the load, and the
\* search returns, with lexical rank 1, the replacement's fragment "b" that
\* the query does not match.
C27_Failure ==
    /\ IsHybridSearch
    /\ op.between = <<"s1">>
    /\ op.query = <<"a">>
    /\ \E i \in LexicallyRanked :
          /\ ~IsMatchedFragment(i)
          /\ RankIn(op.lexical, op.results[i].chunk.rowid) = 1
          /\ op.results[i].chunk.text = <<"b">>
          /\ op.results[i].similarity = 0
          /\ \E m \in op.matched : m.rowid = op.results[i].chunk.rowid /\ m.text = <<"a">>

\* C27, what the code does guarantee: a search whose statements no commit
\* separates returns, for every lexical rank, the fragment the query matched.
C27_WithoutCommitBetween ==
    (IsHybridSearch /\ op.between = <<>>) =>
        \A i \in LexicallyRanked : IsMatchedFragment(i)

C27_UninterruptedSearch ==
    /\ IsHybridSearch
    /\ op.between = <<>>
    /\ Cardinality(LexicallyRanked) = 2

(***************************************************************************)
(* The session cache of display_results.                                   *)
(***************************************************************************)
IsDisplayResults == op.name = "display_results"

\* The results before result i that belong to the same conversation and for
\* which the session file was parsed.
ParsedBefore(i) ==
    {j \in 1..(i - 1) : op.log[j].session_id = op.log[i].session_id /\ op.log[j].inserted}

\* C22: in one display_results invocation the turns of a conversation are
\* parsed from its session file (Session::from_file returns them) at most
\* once: the parse happens for a result iff no earlier result of this
\* invocation parsed the same conversation and its file is there and
\* readable, every later result of the conversation takes the turns of that
\* parse from the cache, and a result takes turns from the cache only if an
\* earlier result of the same invocation parsed them, whatever an earlier
\* invocation cached.
C22_ParsedOncePerInvocation ==
    IsDisplayResults =>
        \A i \in 1..Len(op.log) :
            LET e == op.log[i]
                file == op.files[e.session_id]
            IN  /\ e.inserted <=> e.source = "file"
                /\ e.source = "file" => ParsedBefore(i) = {}
                /\ e.source = "cache" <=> (e.source # "none" /\ ParsedBefore(i) # {})
                /\ e.source = "cache" => (file.source = "file" /\ e.len = file.len)
                /\ Cardinality({j \in 1..Len(op.log) :
                                  op.log[j].session_id = e.session_id /\ op.log[j].inserted}) <= 1

\* An invocation had cached conversation s1; the next one parsed s1 again
\* for its first result and used the cache for its second.
C22_Witness ==
    /\ IsDisplayResults
    /\ "s1" \in op.earlier
    /\ Len(op.log) = 2
    /\ op.log[1].session_id = "s1" /\ op.log[1].source = "file" /\ op.log[1].inserted
    /\ op.log[2].session_id = "s1" /\ op.log[2].source = "cache" /\ ~op.log[2].inserted
    /\ op.log[2].outcome = "turns"

(***************************************************************************)
(* Claims about embed runs, checked under SpecRun.                         *)
(***************************************************************************)
\* The step is a run that discovered and filtered the sessions.
RunStep == op'.name = "run" /\ nops' = nops + 1 /\ op'.filtered

IndexOf(index, rows) == {e \in index : \E r \in rows : r.rowid = e.rowid}

\* The session keeps its rows, their index entries and its marker.
SessionUntouched(sid) ==
    /\ RowsOf(chunks', sid) = RowsOf(chunks, sid)
    /\ IndexOf(chunks_fts', RowsOf(chunks', sid)) = IndexOf(chunks_fts, RowsOf(chunks, sid))
    /\ sessions_processed'[sid] = sessions_processed[sid]

SessionIds(ss) == {ss[i].session_id : i \in 1..Len(ss)}

\* C23: a run selects a discovered conversation for processing iff
\* force_reprocess is set or is_session_processed is false for its (size,
\* mtime), and calls process_session on the selected ones only, in the order
\* of discovery; a conversation it skips keeps its fragments and its marker,
\* and a run that skips every conversation leaves the store as it was.
C23_ProcessedIffNeeded ==
    [][RunStep =>
        LET run_ == op'
            selected == SessionIds(run_.to_process)
        IN  /\ \A i \in 1..Len(run_.sessions) :
                  LET s == run_.sessions[i]
                  IN  /\ s.session_id \in selected <=>
                            (run_.config.force_reprocess
                               \/ ~is_session_processed(Db, s.session_id, s.size, s.mtime))
                      /\ s.session_id \notin selected => SessionUntouched(s.session_id)
            /\ Len(run_.log) <= Len(run_.to_process)
            /\ \A i \in 1..Len(run_.log) :
                  run_.log[i].session_id = run_.to_process[i].session_id
            /\ run_.outcome # "panic" => Len(run_.log) = Len(run_.to_process)
            /\ run_.stats.skipped = Len(run_.sessions) - Len(run_.to_process)
            /\ selected = {} =>
                  /\ chunks' = chunks /\ chunks_fts' = chunks_fts
                  /\ sessions_processed' = sessions_processed /\ state' = state
                  /\ run_.outcome = "ok" /\ run_.log = <<>>
    ]_vars

\* A run without force_reprocess skipped a conversation that has fragments
\* in the store and processed another one.
C23_Witness ==
    /\ op.name = "run" /\ op.filtered /\ ~op.config.force_reprocess
    /\ \E i \in 1..Len(op.sessions) :
          /\ op.sessions[i].session_id \notin SessionIds(op.to_process)
          /\ RowsOf(chunks, op.sessions[i].session_id) # {}
    /\ \E i \in 1..Len(op.log) : op.log[i].outcome = "ok" /\ op.log[i].chunks_count > 0
    /\ op.stats.skipped = 1 /\ op.stats.processed = 1

(***************************************************************************)
(* Failed attempts of an embed run, checked under SpecRun.                 *)
(***************************************************************************)
\* The runs of the history that attempted the session.
RunsAttempting(history, sid) ==
    {k \in 1..Len(history) :
        \E i \in 1..Len(history[k].log) : history[k].log[i].session_id = sid}

\* The log entry of the latest attempt at the session.
LatestAttempt(history, sid) ==
    LET k == CHOOSE j \in RunsAttempting(history, sid) :
                \A l \in RunsAttempting(history, sid) : l <= j
        i == CHOOSE j \in 1..Len(history[k].log) : history[k].log[j].session_id = sid
    IN  history[k].log[i]

SameFingerprint(e, s) == e.size = s.size /\ e.mtime = s.mtime

\* C28: when process_session returns Err for a conversation (parse,
\* embedding or store error) the conversation keeps its stored fragments,
\* their index entries and its marker, and is_session_processed is for its
\* fingerprint what it was before the attempt; the filter of every later run
\* selects a conversation whose latest attempt failed on the fingerprint it
\* still has and was not processed then, and a run without force_reprocess
\* skips a conversation whose latest attempt succeeded on the fingerprint it
\* still has.
C28_FailedAttemptsAreRetried ==
    [][RunStep =>
        LET run_ == op'
            selected == SessionIds(run_.to_process)
        IN  /\ \A i \in 1..Len(run_.log) :
                  LET e == run_.log[i]
                  IN  e.outcome = "err" =>
                         /\ e.error \in {"parse", "embed", "store"}
                         /\ SessionUntouched(e.session_id)
                         /\ is_session_processed(Db', e.session_id, e.size, e.mtime)
                               = e.was_processed
            /\ \A i \in 1..Len(run_.sessions) :
                  LET s == run_.sessions[i]
                  IN  RunsAttempting(run_.history, s.session_id) # {} =>
                         LET e == LatestAttempt(run_.history, s.session_id)
                         IN  /\ (e.outcome = "err" /\ ~e.was_processed /\ SameFingerprint(e, s))
                                   => s.session_id \in selected
                             /\ (e.outcome = "ok" /\ SameFingerprint(e, s)
                                    /\ ~run_.config.force_reprocess)
                                   => /\ s.session_id \notin selected
                                      /\ SessionUntouched(s.session_id)
    ]_vars

\* The first run stored fragments of s1; the second found the file changed
\* and failed on it, for a fingerprint not processed before; the third found
\* the same file, selected it again and processed it.
C28_Witness ==
    /\ op.name = "run" /\ op.filtered /\ Len(op.history) = 2
    /\ \E i \in 1..Len(op.history[1].log) :
          LET e == op.history[1].log[i]
          IN  e.session_id = "s1" /\ e.outcome = "ok" /\ e.chunks_count > 0 /\ e.mtime = 1
    /\ \E i \in 1..Len(op.history[2].log) :
          LET e == op.history[2].log[i]
          IN  /\ e.session_id = "s1" /\ e.outcome = "err" /\ e.error = "store"
              /\ ~e.was_processed /\ e.mtime = 2
    /\ \E i \in 1..Len(op.log) :
          LET e == op.log[i]
          IN  e.session_id = "s1" /\ e.outcome = "ok" /\ e.mtime = 2 /\ ~e.was_processed
    /\ sessions_processed["s1"].present

\* A run skipped a conversation that the run before it processed after the
\* first run had failed on it.
C28_SkippedAfterSuccess ==
    /\ op.name = "run" /\ op.filtered /\ Len(op.history) = 2
    /\ \E i \in 1..Len(op.history[1].log) :
          op.history[1].log[i].session_id = "s1" /\ op.history[1].log[i].outcome = "err"
    /\ \E i \in 1..Len(op.history[2].log) :
          op.history[2].log[i].session_id = "s1" /\ op.history[2].log[i].outcome = "ok"
    /\ "s1" \notin SessionIds(op.to_process)
    /\ RowsOf(chunks, "s1") # {}

(***************************************************************************)
(* The sliding window of extract_text_chunks, checked under SpecEmbed.     *)
(***************************************************************************)
\* process_session got as far as calling extract_text_chunks.
CalledExtract == op.name = "process_session" /\ op.extracted # <<>>

\* The ranges start at 0, their starts increase strictly, each spans at most
\* chunk_size turns, and together they cover the turn indices 0..n-1; no
\* range for chunk_size 0.
RangesAsClaimed(ranges, n, chunk_size) ==
    IF chunk_size = 0 THEN ranges = <<>>
    ELSE /\ n > 0 => (ranges # <<>> /\ ranges[1].turn_start = 0)
         /\ \A k \in 1..(Len(ranges) - 1) : ranges[k].turn_start < ranges[k + 1].turn_start
         /\ \A k \in 1..Len(ranges) :
               /\ ranges[k].turn_start < ranges[k].turn_end
               /\ ranges[k].turn_end - ranges[k].turn_start <= chunk_size
               /\ ranges[k].turn_end <= n
         /\ \A t \in 0..(n - 1) :
               \E k \in 1..Len(ranges) : ranges[k].turn_start <= t /\ t < ranges[k].turn_end

\* C30 as stated: extract_text_chunks returns for every chunk_size and
\* overlap, and for chunk_size >= 1 the ranges of the chunks start at 0,
\* have strictly increasing starts, span at most chunk_size turns each and
\* cover every turn; for chunk_size = 0 there is no chunk.
C30_Original_WindowsCoverTurns ==
    CalledExtract =>
        /\ op.extracted[1].ok
        /\ RangesAsClaimed(op.extracted[1].ranges, op.nturns, op.chunk_size)

\* The failure of C30: with chunk_size = overlap = usize::MAX the step is 1,
\* and at the second turn i + chunk_size overflows; the call panics in both
\* builds and returns no chunk of a session of three turns.
C30_Failure ==
    /\ CalledExtract
    /\ op.chunk_size = UsizeMax /\ op.overlap = UsizeMax /\ op.nturns = 3
    /\ ~op.extracted[1].ok
    /\ op.outcome = "panic"
    /\ RowsOf(chunks, op.session_id) = {}

\* C30, what the code does guarantee: a call that returns made at most one
\* window per turn, and its ranges are as claimed.
C30_RangesWhenReturned ==
    (CalledExtract /\ op.extracted[1].ok) =>
        /\ Len(op.extracted[1].ranges) <= op.nturns
        /\ RangesAsClaimed(op.extracted[1].ranges, op.nturns, op.chunk_size)

\* The overlap is the chunk size, the step is 1: three windows on three turns.
C30_StepOfOne ==
    /\ CalledExtract /\ op.extracted[1].ok
    /\ op.chunk_size = 3 /\ op.overlap = 3 /\ op.nturns = 3
    /\ op.extracted[1].ranges = <<[turn_start |-> 0, turn_end |-> 3],
                                  [turn_start |-> 1, turn_end |-> 3],
                                  [turn_start |-> 2, turn_end |-> 3]>>

(***************************************************************************)
(* The statistics of an embed run, checked under SpecRun.                  *)
(***************************************************************************)
\* The run got past the filter.
FilteredRun == op.name = "run" /\ op.filtered

\* The log entries of the conversations process_session returned Ok for.
RECURSIVE OkEntries(_)
OkEntries(log) ==
    IF log = <<>> THEN <<>>
    ELSE IF Head(log).outcome = "ok" THEN <<Head(log)>> \o OkEntries(Tail(log))
    ELSE OkEntries(Tail(log))

\* The fragments the store holds of the conversations of the entries.
RECURSIVE FragmentsStored(_)
FragmentsStored(entries) ==
    IF entries = <<>> THEN 0
    ELSE Cardinality(RowsOf(chunks, Head(entries).session_id)) + FragmentsStored(Tail(entries))

\* Every selected conversation was processed, the run returned, and its
\* statistics add up.
RunAsClaimed ==
    /\ op.outcome = "ok"
    /\ Len(op.log) = Len(op.to_process)
    /\ \A i \in 1..Len(op.to_process) :
          /\ op.log[i].session_id = op.to_process[i].session_id
          /\ op.log[i].outcome \in {"ok", "err"}
    /\ op.stats.processed + op.stats.skipped + op.stats.errors = Len(op.sessions)
    /\ op.stats.processed = Len(OkEntries(op.log))
    /\ op.stats.errors = Len(op.log) - Len(OkEntries(op.log))
    /\ op.stats.chunks_created = FragmentsStored(OkEntries(op.log))

\* C29 as stated: a failure on one conversation does not stop the run; every
\* other selected conversation is processed, and when the run returns
\* processed + skipped + errors is the number of discovered conversations
\* and chunks_created the number of fragments stored by the conversations
\* processed successfully.
C29_Original_FailureDoesNotStopRun == FilteredRun => RunAsClaimed

\* The failure of C29: the run selected two conversations, the first one
\* panicked inside extract_text_chunks, the run ended there and the second
\* one was never handed to process_session.
C29_Failure ==
    /\ FilteredRun
    /\ op.outcome = "panic"
    /\ Len(op.to_process) = 2 /\ Len(op.log) = 1
    /\ op.log[1].outcome = "panic"
    /\ op.config.chunk_size = UsizeMax /\ op.config.overlap = UsizeMax
    /\ op.stats.processed + op.stats.skipped + op.stats.errors < Len(op.sessions)
    /\ RowsOf(chunks, op.to_process[2].session_id) = {}

\* C29, what the code does guarantee: a run in which no call panics is as
\* claimed, whatever calls of process_session return Err.
C29_RunWithoutPanic ==
    (FilteredRun /\ \A i \in 1..Len(op.log) : op.log[i].outcome # "panic") => RunAsClaimed

\* The first selected conversation failed and the second one was processed.
C29_ErrThenOk ==
    /\ FilteredRun
    /\ Len(op.log) = 2
    /\ op.log[1].outcome = "err" /\ op.log[2].outcome = "ok" /\ op.log[2].chunks_count > 0
    /\ op.stats.errors = 1 /\ op.stats.processed = 1
    /\ op.stats.chunks_created = op.log[2].chunks_count


====
